---- MODULE Spec2Model ----
(***************************************************************************)
(* myslowlog: the slow-query-log pipeline of src/main.rs.  parse_log       *)
(* (src/log_parser.rs) turns the lines of a log into LogEntry records, the *)
(* filters of src/filters/ select records, aggregate_entries               *)
(* (src/aggregate.rs) groups them by query text and summarize_aggregates   *)
(* (src/summarize.rs) folds the groups into one Summary.                   *)
(*                                                                         *)
(* Text is modelled as a sequence of one-character strings, so that the    *)
(* prefix, suffix and regular-expression tests of the parser are computed  *)
(* on characters as the code computes them.                                *)
(***************************************************************************)
EXTENDS Integers, Sequences, FiniteSets, TLC

(***************************************************************************)
(* Characters and character classes of the regex crate.                    *)
(***************************************************************************)
Digit == {"0", "1", "2", "3", "4", "5", "6", "7", "8", "9"}

Letter ==
    {"a", "b", "c", "d", "e", "f", "g", "h", "i", "j", "k", "l", "m", "n", "o", "p", "q",
     "r", "s", "t", "u", "v", "w", "x", "y", "z", "A", "B", "C", "D", "E", "F", "G", "H",
     "I", "J", "K", "L", "M", "N", "O", "P", "Q", "R", "S", "T", "U", "V", "W", "X", "Y",
     "Z"}

\* \w
WordChar == Letter \cup Digit \cup {"_"}

\* \s, as far as a line can hold it (a line holds no line terminator)
Whitespace == {" ", "\t"}

Punct == {"#", ":", "@", "[", "]", ".", "-", ";", "*", "=", ",", "(", ")", "'", "<", ">", "/"}

Char == WordChar \cup Whitespace \cup Punct

\* \S
NonSpace == Char \ Whitespace

(***************************************************************************)
(* str::starts_with, str::ends_with and the pieces of a regex match.       *)
(***************************************************************************)
\* the text p stands in s at index i
HasAt(s, i, p) == i + Len(p) - 1 <= Len(s) /\ SubSeq(s, i, i + Len(p) - 1) = p

starts_with(s, p) == HasAt(s, 1, p)

ends_with(s, c) == Len(s) > 0 /\ s[Len(s)] = c

\* the length of the longest run of characters of class C in s from index i on:
\* what a greedy C* consumes when the next piece of the pattern is outside C
RECURSIVE Span(_, _, _)
Span(s, i, C) == IF i <= Len(s) /\ s[i] \in C THEN 1 + Span(s, i + 1, C) ELSE 0

\* the value of a run of decimal digits
RECURSIVE DecValue(_)
DecValue(ds) ==
    IF ds = <<>> THEN 0
    ELSE 10 * DecValue(SubSeq(ds, 1, Len(ds) - 1))
         + (CHOOSE n \in 0..9 : <<"0", "1", "2", "3", "4", "5", "6", "7", "8", "9">>[n + 1] = ds[Len(ds)])

NoMatch == [ok |-> FALSE]

\* "# Time"
TimeMarker ==
    <<"#", " ", "T", "i", "m", "e">>

\* "# Time: "
TimePrefix ==
    <<"#", " ", "T", "i", "m", "e", ":", " ">>

\* "# User@Host: "
UserPrefix ==
    <<"#", " ", "U", "s", "e", "r", "@", "H", "o", "s", "t", ":", " ">>

\* "# Query_time: "
QueryTimeLabel ==
    <<"#", " ", "Q", "u", "e", "r", "y", "_", "t", "i", "m", "e", ":", " ">>

\* "Lock_time: "
LockTimeLabel ==
    <<"L", "o", "c", "k", "_", "t", "i", "m", "e", ":", " ">>

\* "Rows_sent: "
RowsSentLabel ==
    <<"R", "o", "w", "s", "_", "s", "e", "n", "t", ":", " ">>

\* "Rows_examined: "
RowsExaminedLabel ==
    <<"R", "o", "w", "s", "_", "e", "x", "a", "m", "i", "n", "e", "d", ":", " ">>

\* "SET timestamp"
SetTimestampPrefix ==
    <<"S", "E", "T", " ", "t", "i", "m", "e", "s", "t", "a", "m", "p">>

\* "use"
UsePrefix ==
    <<"u", "s", "e">>

(***************************************************************************)
(* The three header patterns of parse_log.                                 *)
(***************************************************************************)
\* r"# Time: (\S+)" matches at index i of s
TimeMatchAt(s, i) == HasAt(s, i, TimePrefix) /\ Span(s, i + Len(TimePrefix), NonSpace) >= 1

\* time_regex.captures(line): unanchored, the leftmost match, group 1 greedy
time_regex(s) ==
    IF \E i \in 1..Len(s) : TimeMatchAt(s, i)
    THEN LET i == CHOOSE k \in 1..Len(s) :
                      TimeMatchAt(s, k) /\ \A j \in 1..(k - 1) : ~TimeMatchAt(s, j)
             from == i + Len(TimePrefix)
         IN  [ok |-> TRUE, cap1 |-> SubSeq(s, from, from + Span(s, from, NonSpace) - 1)]
    ELSE NoMatch

\* the UTC extended form yyyy-mm-ddThh:mm:ssZ, "d" standing for any digit
Iso8601Shape ==
    <<"d", "d", "d", "d", "-", "d", "d", "-", "d", "d", "T", "d", "d", ":", "d", "d", ":",
      "d", "d", "Z">>

\* OffsetDateTime::parse(cap, &Iso8601::DEFAULT) is Ok.  The time crate is outside
\* the repository: the model accepts the UTC extended form without a fraction.
ParsesAsIso8601(cap) ==
    /\ Len(cap) = Len(Iso8601Shape)
    /\ \A i \in 1..Len(cap) :
          IF Iso8601Shape[i] = "d" THEN cap[i] \in Digit ELSE cap[i] = Iso8601Shape[i]

\* user_regex.captures(line): r"^# User@Host: ([\w-]+)\[[^]]+] @ (\w*) \[([\d.]*)]".
\* Every repetition is followed by a character outside its class, so the greedy
\* run is the only way to match.
user_regex(s) ==
    LET i1 == Len(UserPrefix) + 1
        i2 == i1 + Span(s, i1, WordChar \cup {"-"})
        i3 == i2 + 1 + Span(s, i2 + 1, Char \ {"]"})
        i4 == i3 + 4
        i5 == i4 + Span(s, i4, WordChar)
        i6 == i5 + 2
        i7 == i6 + Span(s, i6, Digit \cup {"."})
    IN  IF /\ starts_with(s, UserPrefix)
           /\ i2 > i1
           /\ HasAt(s, i2, <<"[">>)
           /\ i3 > i2 + 1
           /\ HasAt(s, i3, <<"]", " ", "@", " ">>)
           /\ HasAt(s, i5, <<" ", "[">>)
           /\ HasAt(s, i7, <<"]">>)
        THEN [ok |-> TRUE,
              cap1 |-> SubSeq(s, i1, i2 - 1),
              cap2 |-> SubSeq(s, i4, i5 - 1),
              cap3 |-> SubSeq(s, i6, i7 - 1)]
        ELSE NoMatch

\* metric_regex.captures(line):
\* r"^# Query_time: ([\d.]+)\s+Lock_time: ([\d.]+)\s+Rows_sent: (\d+)\s+Rows_examined: (\d+)"
metric_regex(s) ==
    LET a1 == Len(QueryTimeLabel) + 1
        a2 == a1 + Span(s, a1, Digit \cup {"."})
        a3 == a2 + Span(s, a2, Whitespace)
        b1 == a3 + Len(LockTimeLabel)
        b2 == b1 + Span(s, b1, Digit \cup {"."})
        b3 == b2 + Span(s, b2, Whitespace)
        c1 == b3 + Len(RowsSentLabel)
        c2 == c1 + Span(s, c1, Digit)
        c3 == c2 + Span(s, c2, Whitespace)
        d1 == c3 + Len(RowsExaminedLabel)
        d2 == d1 + Span(s, d1, Digit)
    IN  IF /\ starts_with(s, QueryTimeLabel)
           /\ a2 > a1 /\ a3 > a2
           /\ HasAt(s, a3, LockTimeLabel)
           /\ b2 > b1 /\ b3 > b2
           /\ HasAt(s, b3, RowsSentLabel)
           /\ c2 > c1 /\ c3 > c2
           /\ HasAt(s, c3, RowsExaminedLabel)
           /\ d2 > d1
        THEN [ok |-> TRUE,
              cap1 |-> SubSeq(s, a1, a2 - 1),
              cap2 |-> SubSeq(s, b1, b2 - 1),
              cap3 |-> SubSeq(s, c1, c2 - 1),
              cap4 |-> SubSeq(s, d1, d2 - 1)]
        ELSE NoMatch

(***************************************************************************)
(* Number parsing.                                                         *)
(***************************************************************************)
\* str::parse::<f64>() is Ok on a text of digits and dots: one dot at most and
\* one digit at least ("1.", ".5" and "5" parse, "." and "1.2.3" do not)
ParsesAsF64(t) ==
    /\ Cardinality({i \in 1..Len(t) : t[i] = "."}) <= 1
    /\ \E i \in 1..Len(t) : t[i] \in Digit

\* microseconds_to_duration: parse::<f64>() * 1_000_000.0 as i64, the cast
\* truncating toward zero.  The value is computed in decimal: the whole part, then
\* the first six digits of the fraction.  (The f64 product can fall one short of
\* the decimal value, and the cast saturates at i64::MAX; the texts of the line
\* pool are ones for which the product is exact and far below that.)
microseconds_to_duration(t) ==
    LET dot   == IF \E i \in 1..Len(t) : t[i] = "."
                 THEN CHOOSE i \in 1..Len(t) : t[i] = "."
                 ELSE Len(t) + 1
        whole == SubSeq(t, 1, dot - 1)
        frac  == SubSeq(t, dot + 1, Len(t))
        six   == [k \in 1..6 |-> IF k <= Len(frac) THEN frac[k] ELSE "0"]
    IN  DecValue(whole) * 1000000 + DecValue(six)

\* i32::MAX = 2147483647, as digits
I32MaxDigits == <<"2", "1", "4", "7", "4", "8", "3", "6", "4", "7">>

\* a <= b for two runs of digits of the same length
RECURSIVE DigitsLeq(_, _)
DigitsLeq(a, b) ==
    \/ a = <<>>
    \/ DecValue(<<a[1]>>) < DecValue(<<b[1]>>)
    \/ a[1] = b[1] /\ DigitsLeq(Tail(a), Tail(b))

\* str::parse::<i32>() is Ok on a run of digits: its value is at most i32::MAX
ParsesAsI32(t) ==
    LET sig == SubSeq(t, Span(t, 1, {"0"}) + 1, Len(t))
    IN  \/ Len(sig) < Len(I32MaxDigits)
        \/ Len(sig) = Len(I32MaxDigits) /\ DigitsLeq(sig, I32MaxDigits)

(***************************************************************************)
(* The query text.                                                         *)
(***************************************************************************)
\* faulty variant: always a space
padding_always(query_, next_line) == <<" ">>

\* the separator parse_log puts between the query so far and its next line
padding(query_, next_line) ==
    IF /\ Len(query_) > 0 /\ query_[Len(query_)] \in Digit
       /\ Len(next_line) > 0 /\ next_line[1] \in Digit
    THEN <<>>
    ELSE <<" ">>

\* whitespace_regex.replace_all(s, " ") from index i on, for r"\t|\s\s+".  The
\* regex crate takes the leftmost match and in an alternation the first branch
\* that matches: at a tab that is the tab alone, at any other whitespace character
\* followed by whitespace it is the whole run.
RECURSIVE ReplaceFrom(_, _)
ReplaceFrom(s, i) ==
    IF i > Len(s) THEN <<>>
    ELSE IF s[i] = "\t" THEN <<" ">> \o ReplaceFrom(s, i + 1)
    ELSE IF s[i] \in Whitespace /\ i < Len(s) /\ s[i + 1] \in Whitespace
         THEN <<" ">> \o ReplaceFrom(s, i + Span(s, i, Whitespace))
    ELSE <<s[i]>> \o ReplaceFrom(s, i + 1)

\* pieces[lo] \o .. \o pieces[hi], halving
RECURSIVE ConcatAll(_, _, _)
ConcatAll(pieces, lo, hi) ==
    IF lo > hi THEN <<>>
    ELSE IF lo = hi THEN pieces[lo]
    ELSE LET mid == (lo + hi) \div 2
         IN  ConcatAll(pieces, lo, mid) \o ConcatAll(pieces, mid + 1, hi)

\* whitespace_regex.replace_all(s, " ").  No match holds a character that is not
\* whitespace, so the scan takes each such character as it is and starts afresh
\* on each run of whitespace: the replacement is computed run by run.
whitespace_replace_all(s) ==
    ConcatAll([i \in 1..Len(s) |->
                 IF s[i] \notin Whitespace THEN <<s[i]>>
                 ELSE IF i = 1 \/ s[i - 1] \notin Whitespace
                      THEN ReplaceFrom(SubSeq(s, i, i + Span(s, i, Whitespace) - 1), 1)
                 ELSE <<>>],
              1, Len(s))

(***************************************************************************)
(* The input: lines drawn from a pool of texts, each named.                *)
(***************************************************************************)
\* "# Time: 2019-07-30T13:01:34Z"
TextTimeOK ==
    <<"#", " ", "T", "i", "m", "e", ":", " ", "2", "0", "1", "9", "-", "0", "7", "-", "3", "0",
      "T", "1", "3", ":", "0", "1", ":", "3", "4", "Z">>

\* "# Timestamps"
TextTimeNoCapture ==
    <<"#", " ", "T", "i", "m", "e", "s", "t", "a", "m", "p", "s">>

\* "# Time: soon"
TextTimeBadStamp ==
    <<"#", " ", "T", "i", "m", "e", ":", " ", "s", "o", "o", "n">>

\* "# User@Host: foo[bar] @  [127.0.0.1]  Id: 1"
TextUserFoo ==
    <<"#", " ", "U", "s", "e", "r", "@", "H", "o", "s", "t", ":", " ", "f", "o", "o", "[", "b",
      "a", "r", "]", " ", "@", " ", " ", "[", "1", "2", "7", ".", "0", ".", "0", ".", "1", "]",
      " ", " ", "I", "d", ":", " ", "1">>

\* "# User@Host: bob[b] @ db1 [10.0.0.2]"
TextUserBob ==
    <<"#", " ", "U", "s", "e", "r", "@", "H", "o", "s", "t", ":", " ", "b", "o", "b", "[", "b",
      "]", " ", "@", " ", "d", "b", "1", " ", "[", "1", "0", ".", "0", ".", "0", ".", "2", "]">>

\* "# Query_time: 0.5  Lock_time: 0 Rows_sent: 1  Rows_examined: 2"
TextMetricA ==
    <<"#", " ", "Q", "u", "e", "r", "y", "_", "t", "i", "m", "e", ":", " ", "0", ".", "5", " ",
      " ", "L", "o", "c", "k", "_", "t", "i", "m", "e", ":", " ", "0", " ", "R", "o", "w", "s",
      "_", "s", "e", "n", "t", ":", " ", "1", " ", " ", "R", "o", "w", "s", "_", "e", "x", "a",
      "m", "i", "n", "e", "d", ":", " ", "2">>

\* "# Query_time: 600  Lock_time: 0 Rows_sent: 1  Rows_examined: 2"
TextMetricSlow ==
    <<"#", " ", "Q", "u", "e", "r", "y", "_", "t", "i", "m", "e", ":", " ", "6", "0", "0", " ",
      " ", "L", "o", "c", "k", "_", "t", "i", "m", "e", ":", " ", "0", " ", "R", "o", "w", "s",
      "_", "s", "e", "n", "t", ":", " ", "1", " ", " ", "R", "o", "w", "s", "_", "e", "x", "a",
      "m", "i", "n", "e", "d", ":", " ", "2">>

\* "# Query_time: 0.0015 Lock_time: 0.25 Rows_sent: 0 Rows_examined: 7"
TextMetricB ==
    <<"#", " ", "Q", "u", "e", "r", "y", "_", "t", "i", "m", "e", ":", " ", "0", ".", "0", "0",
      "1", "5", " ", "L", "o", "c", "k", "_", "t", "i", "m", "e", ":", " ", "0", ".", "2", "5",
      " ", "R", "o", "w", "s", "_", "s", "e", "n", "t", ":", " ", "0", " ", "R", "o", "w", "s",
      "_", "e", "x", "a", "m", "i", "n", "e", "d", ":", " ", "7">>

\* "# Query_time: 1.2.3 Lock_time: 0 Rows_sent: 1 Rows_examined: 2"
TextMetricBadFloat ==
    <<"#", " ", "Q", "u", "e", "r", "y", "_", "t", "i", "m", "e", ":", " ", "1", ".", "2", ".",
      "3", " ", "L", "o", "c", "k", "_", "t", "i", "m", "e", ":", " ", "0", " ", "R", "o", "w",
      "s", "_", "s", "e", "n", "t", ":", " ", "1", " ", "R", "o", "w", "s", "_", "e", "x", "a",
      "m", "i", "n", "e", "d", ":", " ", "2">>

\* "use foo;"
TextUseDb ==
    <<"u", "s", "e", " ", "f", "o", "o", ";">>

\* "SET timestamp=1;"
TextSetTs ==
    <<"S", "E", "T", " ", "t", "i", "m", "e", "s", "t", "a", "m", "p", "=", "1", ";">>

\* "SELECT 1;"
TextQOne ==
    <<"S", "E", "L", "E", "C", "T", " ", "1", ";">>

\* "SELECT *"
TextQSel ==
    <<"S", "E", "L", "E", "C", "T", " ", "*">>

\* " FROM t"
TextQFrom ==
    <<" ", "F", "R", "O", "M", " ", "t">>

\* " WHERE x=1;"
TextQWhere ==
    <<" ", "W", "H", "E", "R", "E", " ", "x", "=", "1", ";">>

\* "SELECT 12"
TextQNumA ==
    <<"S", "E", "L", "E", "C", "T", " ", "1", "2">>

\* "34;"
TextQNumB ==
    <<"3", "4", ";">>

\* "Time Id"
TextNoise ==
    <<"T", "i", "m", "e", " ", "I", "d">>

\* ""
TextEmpty ==
    <<>>

\* "SELECT\t\t1;"
TextQTabs ==
    <<"S", "E", "L", "E", "C", "T", "\t", "\t", "1", ";">>

\* "SELECT   1;"
TextQSpaces ==
    <<"S", "E", "L", "E", "C", "T", " ", " ", " ", "1", ";">>

\* "SELECT \t1;"
TextQSpaceTab ==
    <<"S", "E", "L", "E", "C", "T", " ", "\t", "1", ";">>

\* "SELECT\t"
TextQTabEnd ==
    <<"S", "E", "L", "E", "C", "T", "\t">>

\* the text of the line of each name
Text ==
    [TimeOK |-> TextTimeOK,
     TimeNoCapture |-> TextTimeNoCapture,
     TimeBadStamp |-> TextTimeBadStamp,
     UserFoo |-> TextUserFoo,
     UserBob |-> TextUserBob,
     MetricA |-> TextMetricA,
     MetricB |-> TextMetricB,
     MetricSlow |-> TextMetricSlow,
     QTabs |-> TextQTabs,
     QSpaces |-> TextQSpaces,
     QSpaceTab |-> TextQSpaceTab,
     QTabEnd |-> TextQTabEnd,
     MetricBadFloat |-> TextMetricBadFloat,
     UseDb |-> TextUseDb,
     SetTs |-> TextSetTs,
     QOne |-> TextQOne,
     QSel |-> TextQSel,
     QFrom |-> TextQFrom,
     QWhere |-> TextQWhere,
     QNumA |-> TextQNumA,
     QNumB |-> TextQNumB,
     Noise |-> TextNoise,
     Empty |-> TextEmpty]

(***************************************************************************)
(* A log is a sequence of segments, each a run of lines: a well-formed     *)
(* block, a single line that starts no time marker, or the beginning of a  *)
(* block that is cut or malformed.                                         *)
(***************************************************************************)
\* the longest log, in segments
MaxSegs == 3

\* header, query on one line
BlockOne == <<"TimeOK", "UserFoo", "MetricA", "QOne">>

\* header, two preamble lines, query on three lines
BlockMulti == <<"TimeOK", "UserBob", "MetricB", "UseDb", "SetTs", "QSel", "QFrom", "QWhere">>

\* header, a number wrapped across two query lines
BlockWrapped == <<"TimeOK", "UserFoo", "MetricB", "QNumA", "QNumB">>

Blocks == {BlockOne, BlockMulti, BlockWrapped}

\* header with a query time of ten minutes, query on one line
BlockSlow == <<"TimeOK", "UserFoo", "MetricSlow", "QOne">>

\* single lines that do not start with "# Time"
NoiseLines == {<<"Noise">>, <<"Empty">>, <<"QSel">>}

\* a block cut after its time, user/host or metrics line, and the malformed ones
Fragments ==
    {<<"TimeOK">>, <<"TimeOK", "UserFoo">>, <<"TimeOK", "UserFoo", "MetricA">>,
     <<"TimeNoCapture">>, <<"TimeBadStamp">>, <<"TimeOK", "UserFoo", "MetricBadFloat">>}

Segments == Blocks \cup NoiseLines \cup Fragments

Logs == UNION {[1..n -> Segments] : n \in 0..MaxSegs}

\* the lines of a log, in order
RECURSIVE Flatten(_)
Flatten(segs) == IF segs = <<>> THEN <<>> ELSE Head(segs) \o Flatten(Tail(segs))

(***************************************************************************)
(* What the blocks of the pool hold, written out by hand.                  *)
(***************************************************************************)
\* "2019-07-30T13:01:34Z"
Stamp2019 ==
    <<"2", "0", "1", "9", "-", "0", "7", "-", "3", "0", "T", "1", "3", ":", "0", "1", ":", "3",
      "4", "Z">>

\* "foo"
Foo ==
    <<"f", "o", "o">>

\* "bob"
Bob ==
    <<"b", "o", "b">>

\* "127.0.0.1"
Localhost ==
    <<"1", "2", "7", ".", "0", ".", "0", ".", "1">>

\* "db1"
Db1 ==
    <<"d", "b", "1">>

\* "SELECT 1;"
QueryOne ==
    <<"S", "E", "L", "E", "C", "T", " ", "1", ";">>

\* "SELECT * FROM t WHERE x=1;"
QueryMulti ==
    <<"S", "E", "L", "E", "C", "T", " ", "*", " ", "F", "R", "O", "M", " ", "t", " ", "W", "H",
      "E", "R", "E", " ", "x", "=", "1", ";">>

\* "SELECT 1234;"
QueryWrapped ==
    <<"S", "E", "L", "E", "C", "T", " ", "1", "2", "3", "4", ";">>

\* the entry each well-formed block stands for: the header fields as written in
\* its lines, times in microseconds, and the query on one line
ExpectedEntry(block) ==
    CASE block = BlockOne ->
           [timestamp |-> Stamp2019, user |-> Foo, host |-> Localhost,
            query_time |-> 500000, lock_time |-> 0, rows_sent |-> 1, rows_examined |-> 2,
            query |-> QueryOne]
      [] block = BlockMulti ->
           [timestamp |-> Stamp2019, user |-> Bob, host |-> Db1,
            query_time |-> 1500, lock_time |-> 250000, rows_sent |-> 0, rows_examined |-> 7,
            query |-> QueryMulti]
      [] block = BlockWrapped ->
           [timestamp |-> Stamp2019, user |-> Foo, host |-> Localhost,
            query_time |-> 1500, lock_time |-> 250000, rows_sent |-> 0, rows_examined |-> 7,
            query |-> QueryWrapped]

(***************************************************************************)
(* src/normalize.rs.  Parser::parse_sql belongs to the sqlparser crate: the *)
(* model holds the statement trees it returns for the queries of the       *)
(* blocks, and the text its Display writes for such trees.                 *)
(***************************************************************************)
None == [some |-> FALSE]

Some(x) == [some |-> TRUE, value |-> x]

Number(text) == [type |-> "Number", text |-> text]

Placeholder(text) == [type |-> "Placeholder", text |-> text]

SingleQuotedString(text) == [type |-> "SingleQuotedString", text |-> text]

Boolean(b) == [type |-> "Boolean", bool |-> b]

Null == [type |-> "Null"]

ExprValue(v) == [type |-> "Value", value |-> v]

Identifier(name) == [type |-> "Identifier", ident |-> name]

BinaryOp(left, op, right) == [type |-> "BinaryOp", left |-> left, op |-> op, right |-> right]

InList(expr, list, negated) ==
    [type |-> "InList", expr |-> expr, list |-> list, negated |-> negated]

UnnamedExpr(e) == [type |-> "UnnamedExpr", expr |-> e]

Wildcard == [type |-> "Wildcard"]

Table(name) == [relation |-> [type |-> "Table", name |-> name], joins |-> <<>>]

\* TableFactor::Derived: a subquery with its alias
Derived(subquery, alias) == [type |-> "Derived", subquery |-> subquery, alias |-> alias]

\* TableFactor::NestedJoin
NestedJoin(twj) == [type |-> "NestedJoin", table_with_joins |-> twj]

\* a Join of operator JoinOperator::Inner(JoinConstraint::On(on))
InnerJoinOn(relation, on) ==
    [relation |-> relation,
     join_operator |-> [type |-> "Inner", constraint |-> [type |-> "On", expr |-> on]]]

TableWithJoins(relation, joins) == [relation |-> relation, joins |-> joins]

\* a Query whose body is a SetExpr::Select
SelectQuery(projection, from, selection, limit_clause) ==
    [with |-> None,
     body |-> [type |-> "Select",
               select |-> [projection |-> projection, from |-> from,
                           selection |-> selection]],
     limit_clause |-> limit_clause]

\* a Query whose body is a SetExpr::Values
ValuesQuery(rows) ==
    [with |-> None, body |-> [type |-> "Values", rows |-> rows], limit_clause |-> None]

\* a Query whose body is a SetExpr::SetOperation of two queries' bodies
SetOperationQuery(op, left, right) ==
    [with |-> None,
     body |-> [type |-> "SetOperation", op |-> op, left |-> left.body, right |-> right.body],
     limit_clause |-> None]

\* query_ under WITH <alias> AS (<cte>)
WithQuery(alias, cte, query_) ==
    [query_ EXCEPT !.with = Some(<<[alias |-> alias, query |-> cte]>>)]

\* Statement::Query of a Query whose body is a SetExpr::Select, without LIMIT
SelectStatement(projection, from, selection) ==
    [type |-> "Query", query |-> SelectQuery(projection, from, selection, None)]

\* Statement::Query with a LIMIT
SelectLimitStatement(projection, from, selection, limit) ==
    [type |-> "Query", query |-> SelectQuery(projection, from, selection, Some(limit))]

\* Statement::Insert: the fields of Insert that the statements of the model use
InsertStatement(ignore, table, source) ==
    [type |-> "Insert", ignore |-> ignore, table |-> table, source |-> source]

\* Statement::Update: table, assignments (target, value) and selection
UpdateStatement(table, assignments, selection) ==
    [type |-> "Update", table |-> table, assignments |-> assignments,
     selection |-> selection]

\* Statement::Delete: from and selection
DeleteStatement(from, selection) ==
    [type |-> "Delete", from |-> from, selection |-> selection]

\* whatever the value, Value::Placeholder("?")
normalize_value(value) == Placeholder(<<"?">>)

RECURSIVE normalize_expr(_)

\* faulty variant: every element kept
normalize_in_list_all(list) == [i \in 1..Len(list) |-> normalize_expr(list[i])]

\* faulty variant: the first element dropped
normalize_in_list_rest(list) ==
    [i \in 1..(Len(list) - 1) |-> normalize_expr(list[i + 1])]

\* the list of a normalized Expr::InList: match list.first() { Some(expr) =>
\* vec![normalize_expr(expr)], None => Vec::new() }
normalize_in_list(list) == IF list = <<>> THEN <<>> ELSE <<normalize_expr(list[1])>>

normalize_expr(expr) ==
    CASE expr.type = "InList" ->
           InList(normalize_expr(expr.expr), normalize_in_list(expr.list), expr.negated)
      [] expr.type = "BinaryOp" ->
           BinaryOp(normalize_expr(expr.left), expr.op, normalize_expr(expr.right))
      [] expr.type = "Value" -> ExprValue(normalize_value(expr.value))
      [] OTHER -> expr

normalize_select_item(item) ==
    CASE item.type = "UnnamedExpr" -> UnnamedExpr(normalize_expr(item.expr))
      [] OTHER -> item

RECURSIVE normalize_query(_)
RECURSIVE normalize_table_with_joins(_)

\* NestedJoin and Derived are normalized, any other TableFactor is cloned
normalize_table_factor(tf) ==
    CASE tf.type = "NestedJoin" ->
           NestedJoin(normalize_table_with_joins(tf.table_with_joins))
      [] tf.type = "Derived" -> Derived(normalize_query(tf.subquery), tf.alias)
      [] OTHER -> tf

normalize_join_constraint(constraint) ==
    CASE constraint.type = "On" -> [type |-> "On", expr |-> normalize_expr(constraint.expr)]
      [] OTHER -> constraint

\* Inner, LeftOuter, RightOuter and FullOuter have their constraint normalized
normalize_join_operator(operator) ==
    CASE operator.type \in {"Inner", "LeftOuter", "RightOuter", "FullOuter"} ->
           [type |-> operator.type,
            constraint |-> normalize_join_constraint(operator.constraint)]
      [] OTHER -> operator

normalize_join(join) ==
    [relation |-> normalize_table_factor(join.relation),
     join_operator |-> normalize_join_operator(join.join_operator)]

normalize_table_with_joins(twj) ==
    [relation |-> normalize_table_factor(twj.relation),
     joins |-> [i \in 1..Len(twj.joins) |-> normalize_join(twj.joins[i])]]

normalize_select(select) ==
    [projection |-> [i \in 1..Len(select.projection) |->
                       normalize_select_item(select.projection[i])],
     from |-> [i \in 1..Len(select.from) |-> normalize_table_with_joins(select.from[i])],
     selection |-> IF select.selection.some
                   THEN Some(normalize_expr(select.selection.value))
                   ELSE None]

normalize_values(values) ==
    [type |-> "Values",
     rows |-> [r \in 1..Len(values.rows) |->
                 [i \in 1..Len(values.rows[r]) |-> normalize_expr(values.rows[r][i])]]]

RECURSIVE normalize_set_expr(_)
normalize_set_expr(set_expr) ==
    CASE set_expr.type = "Select" ->
           [type |-> "Select", select |-> normalize_select(set_expr.select)]
      [] set_expr.type = "SetOperation" ->
           [type |-> "SetOperation", op |-> set_expr.op,
            left |-> normalize_set_expr(set_expr.left),
            right |-> normalize_set_expr(set_expr.right)]
      [] set_expr.type = "Values" -> normalize_values(set_expr)

\* the body is normalized; with: query.with.clone(), limit_clause:
\* query.limit_clause.to_owned()
normalize_query(query_) ==
    [with |-> query_.with, body |-> normalize_set_expr(query_.body),
     limit_clause |-> query_.limit_clause]

\* source: insert.source.to_owned(), table: insert.table.to_owned(), ignore: false
normalize_insert(insert) ==
    [type |-> "Insert", ignore |-> FALSE, table |-> insert.table, source |-> insert.source]

normalize_assignment(assignment) ==
    [target |-> assignment.target, value |-> normalize_expr(assignment.value)]

normalize_update(stmt) ==
    [type |-> "Update", table |-> normalize_table_with_joins(stmt.table),
     assignments |-> [i \in 1..Len(stmt.assignments) |->
                        normalize_assignment(stmt.assignments[i])],
     selection |-> IF stmt.selection.some THEN Some(normalize_expr(stmt.selection.value))
                   ELSE None]

\* from: delete.from.clone(); the selection is normalized
normalize_delete(delete) ==
    [type |-> "Delete", from |-> delete.from,
     selection |-> IF delete.selection.some THEN Some(normalize_expr(delete.selection.value))
                   ELSE None]

normalize_stmt(stmt) ==
    CASE stmt.type = "Query" -> [type |-> "Query", query |-> normalize_query(stmt.query)]
      [] stmt.type = "Insert" -> normalize_insert(stmt)
      [] stmt.type = "Update" -> normalize_update(stmt)
      [] stmt.type = "Delete" -> normalize_delete(stmt)
      [] OTHER -> stmt

\* "SELECT "
Select ==
    <<"S", "E", "L", "E", "C", "T", " ">>

\* " FROM "
From ==
    <<" ", "F", "R", "O", "M", " ">>

\* " WHERE "
Where ==
    <<" ", "W", "H", "E", "R", "E", " ">>

\* " IN ("
In ==
    <<" ", "I", "N", " ", "(">>

\* " NOT IN ("
NotIn ==
    <<" ", "N", "O", "T", " ", "I", "N", " ", "(">>

\* " LIMIT "
Limit ==
    <<" ", "L", "I", "M", "I", "T", " ">>

\* "INSERT"
Insert ==
    <<"I", "N", "S", "E", "R", "T">>

\* " IGNORE"
Ignore ==
    <<" ", "I", "G", "N", "O", "R", "E">>

\* " INTO "
Into ==
    <<" ", "I", "N", "T", "O", " ">>

\* "VALUES "
Values ==
    <<"V", "A", "L", "U", "E", "S", " ">>

\* Display of a Value
ShowValue(value) ==
    CASE value.type = "SingleQuotedString" -> <<"'">> \o value.text \o <<"'">>
      [] value.type = "Boolean" ->
           (IF value.bool THEN <<"t", "r", "u", "e">> ELSE <<"f", "a", "l", "s", "e">>)
      [] value.type = "Null" -> <<"N", "U", "L", "L">>
      [] OTHER -> value.text

\* Display of an Expr
RECURSIVE ShowExpr(_)

\* the texts of `shown` with ", " between them
RECURSIVE CommaSeparated(_)
CommaSeparated(shown) ==
    IF shown = <<>> THEN <<>>
    ELSE IF Len(shown) = 1 THEN shown[1]
    ELSE shown[1] \o <<",", " ">> \o CommaSeparated(Tail(shown))

ShowExpr(expr) ==
    CASE expr.type = "BinaryOp" ->
           ShowExpr(expr.left) \o <<" ">> \o expr.op \o <<" ">> \o ShowExpr(expr.right)
      [] expr.type = "InList" ->
           ShowExpr(expr.expr) \o (IF expr.negated THEN NotIn ELSE In)
           \o CommaSeparated([i \in 1..Len(expr.list) |-> ShowExpr(expr.list[i])]) \o <<")">>
      [] expr.type = "Value" -> ShowValue(expr.value)
      [] expr.type = "Identifier" -> expr.ident

ShowSelectItem(item) ==
    CASE item.type = "UnnamedExpr" -> ShowExpr(item.expr)
      [] item.type = "Wildcard" -> <<"*">>

RECURSIVE ShowQuery(_)
RECURSIVE ShowTableWithJoins(_)

\* Display of a TableFactor
ShowTableFactor(tf) ==
    CASE tf.type = "Table" -> tf.name
      [] tf.type = "Derived" ->
           <<"(">> \o ShowQuery(tf.subquery) \o <<")", " ", "A", "S", " ">> \o tf.alias
      [] tf.type = "NestedJoin" ->
           <<"(">> \o ShowTableWithJoins(tf.table_with_joins) \o <<")">>

\* Display of a Join of operator Inner with an ON constraint
ShowJoin(join) ==
    <<" ", "I", "N", "N", "E", "R", " ", "J", "O", "I", "N", " ">>
    \o ShowTableFactor(join.relation)
    \o <<" ", "O", "N", " ">> \o ShowExpr(join.join_operator.constraint.expr)

ShowTableWithJoins(twj) ==
    ShowTableFactor(twj.relation)
    \o ConcatAll([i \in 1..Len(twj.joins) |-> ShowJoin(twj.joins[i])], 1, Len(twj.joins))

\* Display of a SetExpr
RECURSIVE ShowSetExpr(_)
ShowSetExpr(set_expr) ==
    CASE set_expr.type = "Select" ->
            LET select == set_expr.select
            IN  Select
                \o CommaSeparated([i \in 1..Len(select.projection) |->
                                     ShowSelectItem(select.projection[i])])
                \o (IF select.from = <<>> THEN <<>>
                    ELSE From \o CommaSeparated([i \in 1..Len(select.from) |->
                                                   ShowTableWithJoins(select.from[i])]))
                \o (IF select.selection.some THEN Where \o ShowExpr(select.selection.value)
                    ELSE <<>>)
      [] set_expr.type = "SetOperation" ->
            ShowSetExpr(set_expr.left) \o <<" ">> \o set_expr.op \o <<" ">>
            \o ShowSetExpr(set_expr.right)
      [] set_expr.type = "Values" ->
            Values
            \o CommaSeparated([r \in 1..Len(set_expr.rows) |->
                                 <<"(">>
                                 \o CommaSeparated([i \in 1..Len(set_expr.rows[r]) |->
                                                      ShowExpr(set_expr.rows[r][i])])
                                 \o <<")">>])

\* Display of a Query: WITH, body, LIMIT
ShowQuery(query_) ==
    (IF query_.with.some
     THEN <<"W", "I", "T", "H", " ">>
          \o CommaSeparated([i \in 1..Len(query_.with.value) |->
                               query_.with.value[i].alias \o <<" ", "A", "S", " ", "(">>
                               \o ShowQuery(query_.with.value[i].query) \o <<")">>])
          \o <<" ">>
     ELSE <<>>)
    \o ShowSetExpr(query_.body)
    \o (IF query_.limit_clause.some THEN Limit \o ShowExpr(query_.limit_clause.value)
        ELSE <<>>)

\* Display of a Statement
ShowStatement(stmt) ==
    CASE stmt.type = "Query" -> ShowQuery(stmt.query)
      [] stmt.type = "Insert" ->
           Insert \o (IF stmt.ignore THEN Ignore ELSE <<>>) \o Into \o stmt.table \o <<" ">>
           \o ShowQuery(stmt.source)
      [] stmt.type = "Update" ->
           <<"U", "P", "D", "A", "T", "E", " ">> \o ShowTableWithJoins(stmt.table)
           \o <<" ", "S", "E", "T", " ">>
           \o CommaSeparated([i \in 1..Len(stmt.assignments) |->
                                stmt.assignments[i].target \o <<" ", "=", " ">>
                                \o ShowExpr(stmt.assignments[i].value)])
           \o (IF stmt.selection.some THEN Where \o ShowExpr(stmt.selection.value)
               ELSE <<>>)
      [] stmt.type = "Delete" ->
           <<"D", "E", "L", "E", "T", "E">> \o From
           \o CommaSeparated([i \in 1..Len(stmt.from) |-> ShowTableWithJoins(stmt.from[i])])
           \o (IF stmt.selection.some THEN Where \o ShowExpr(stmt.selection.value)
               ELSE <<>>)

\* .map(normalize_stmt).map(|stmt| format!("{};", stmt))
\* .fold(String::new(), |acc, item| acc + " " + &item)
RECURSIVE normalize_ast(_)
normalize_ast(ast) ==
    IF ast = <<>> THEN <<>>
    ELSE normalize_ast(SubSeq(ast, 1, Len(ast) - 1))
         \o <<" ">> \o ShowStatement(normalize_stmt(ast[Len(ast)])) \o <<";">>

\* "Unparseable statement: "
UnparseablePrefix ==
    <<"U", "n", "p", "a", "r", "s", "e", "a", "b", "l", "e", " ", "s", "t", "a", "t", "e", "m",
      "e", "n", "t", ":", " ">>

\* "sql parser error: Expected: an SQL statement, found: "
ExpectedStatement ==
    <<"s", "q", "l", " ", "p", "a", "r", "s", "e", "r", " ", "e", "r", "r", "o", "r", ":", " ",
      "E", "x", "p", "e", "c", "t", "e", "d", ":", " ", "a", "n", " ", "S", "Q", "L", " ", "s",
      "t", "a", "t", "e", "m", "e", "n", "t", ",", " ", "f", "o", "u", "n", "d", ":", " ">>

\* "sql parser error: Expected: an expression, found: )"
ExpectedExpression ==
    <<"s", "q", "l", " ", "p", "a", "r", "s", "e", "r", " ", "e", "r", "r", "o", "r", ":", " ",
      "E", "x", "p", "e", "c", "t", "e", "d", ":", " ", "a", "n", " ", "e", "x", "p", "r", "e",
      "s", "s", "i", "o", "n", ",", " ", "f", "o", "u", "n", "d", ":", " ", ")">>

\* SELECT * FROM <table> WHERE id <op> <number>
SelectWhereId(table, op, number) ==
    SelectStatement(<<Wildcard>>, <<Table(table)>>,
                    Some(BinaryOp(Identifier(<<"i", "d">>), op, ExprValue(Number(number)))))

\* SELECT * FROM t WHERE id IN (<numbers>)
SelectWhereIdIn(numbers) ==
    SelectStatement(<<Wildcard>>, <<Table(<<"t">>)>>,
                    Some(InList(Identifier(<<"i", "d">>),
                                [i \in 1..Len(numbers) |-> ExprValue(Number(numbers[i]))],
                                FALSE)))

\* SELECT * FROM t LIMIT <number>
SelectLimit(number) ==
    SelectLimitStatement(<<Wildcard>>, <<Table(<<"t">>)>>, None, ExprValue(Number(number)))

\* INSERT [IGNORE] INTO t VALUES (<number>)
InsertValue(ignore, number) ==
    InsertStatement(ignore, <<"t">>, ValuesQuery(<<<<ExprValue(Number(number))>>>>))

\* SELECT * FROM t WHERE x = 1, the query of BlockMulti
SelectWhereX ==
    SelectStatement(<<Wildcard>>, <<Table(<<"t">>)>>,
                    Some(BinaryOp(Identifier(<<"x">>), <<"=">>, ExprValue(Number(<<"1">>)))))

\* the statements written in the queries of the model
WrittenTrees ==
    {SelectStatement(<<UnnamedExpr(ExprValue(Number(<<"1">>)))>>, <<>>, None),
     SelectWhereX,
     SelectStatement(<<UnnamedExpr(ExprValue(Number(<<"1", "2", "3", "4">>)))>>, <<>>, None),
     SelectStatement(<<Wildcard>>, <<Table(<<"t">>)>>, None),
     SelectWhereId(<<"t">>, <<"=">>, <<"1">>),
     SelectWhereId(<<"t">>, <<"=">>, <<"2">>),
     SelectWhereId(<<"t">>, <<">">>, <<"1">>),
     SelectWhereId(<<"u">>, <<"=">>, <<"1">>),
     SelectWhereIdIn(<<<<"1">>, <<"2">>, <<"3">>>>),
     SelectWhereIdIn(<<<<"1">>>>),
     SelectWhereIdIn(<<>>),
     SelectLimit(<<"1", "0">>),
     SelectLimit(<<"2", "0">>),
     InsertValue(FALSE, <<"1">>),
     InsertValue(FALSE, <<"2">>),
     InsertValue(TRUE, <<"1">>)}

\* id = <value>
IdEquals(value) == BinaryOp(Identifier(<<"i", "d">>), <<"=">>, ExprValue(value))

\* SELECT * FROM t WHERE id = <value>
SelectWhereValue(value) ==
    SelectStatement(<<Wildcard>>, <<Table(<<"t">>)>>, Some(IdEquals(value)))

\* the literals of the queries that differ in the kind of one literal
Literals ==
    {Number(<<"1">>), SingleQuotedString(<<"a">>), Boolean(FALSE), Null}

\* the SELECT * FROM <table> WHERE id = <number> of the nested queries
Inner(table, number) ==
    SelectQuery(<<Wildcard>>, <<Table(table)>>, Some(IdEquals(Number(number))), None)

\* WITH c AS (SELECT * FROM t WHERE id = 1) SELECT * FROM c
SelectWith ==
    [type |-> "Query",
     query |-> WithQuery(<<"c">>, Inner(<<"t">>, <<"1">>),
                         SelectQuery(<<Wildcard>>, <<Table(<<"c">>)>>, None, None))]

\* SELECT * FROM (SELECT * FROM t WHERE id = 1) AS d
SelectDerived ==
    SelectStatement(<<Wildcard>>,
                    <<TableWithJoins(Derived(Inner(<<"t">>, <<"1">>), <<"d">>), <<>>)>>, None)

\* t INNER JOIN u ON id = 1
JoinOnId ==
    TableWithJoins(Table(<<"t">>).relation,
                   <<InnerJoinOn(Table(<<"u">>).relation, IdEquals(Number(<<"1">>)))>>)

\* SELECT * FROM t INNER JOIN u ON id = 1
SelectJoin == SelectStatement(<<Wildcard>>, <<JoinOnId>>, None)

\* SELECT * FROM (t INNER JOIN u ON id = 1)
SelectNestedJoin ==
    SelectStatement(<<Wildcard>>, <<TableWithJoins(NestedJoin(JoinOnId), <<>>)>>, None)

\* SELECT * FROM t WHERE id = 1 UNION SELECT * FROM u WHERE id = 2
SelectUnion ==
    [type |-> "Query",
     query |-> SetOperationQuery(<<"U", "N", "I", "O", "N">>, Inner(<<"t">>, <<"1">>),
                                 Inner(<<"u">>, <<"2">>))]

\* UPDATE t SET x = 1 WHERE id = 2
UpdateSetWhere ==
    UpdateStatement(Table(<<"t">>),
                    <<[target |-> <<"x">>, value |-> ExprValue(Number(<<"1">>))]>>,
                    Some(IdEquals(Number(<<"2">>))))

\* DELETE FROM t WHERE id = 1
DeleteWhere == DeleteStatement(<<Table(<<"t">>)>>, Some(IdEquals(Number(<<"1">>))))

\* statements with a literal in each kind of node the normalizer is written for
NestedTrees ==
    {SelectWith, SelectDerived, SelectJoin, SelectNestedJoin, SelectUnion,
     InsertValue(FALSE, <<"1">>), UpdateSetWhere, DeleteWhere}

\* the statements the parser is given: the written ones and, for the fingerprints
\* fed back to it, what normalize_stmt makes of them
Trees ==
    LET written == WrittenTrees \cup NestedTrees \cup {SelectWhereValue(v) : v \in Literals}
    IN  written \cup {normalize_stmt(t) : t \in written}

\* the text Display writes for each statement of Trees
Display == [t \in Trees |-> ShowStatement(t)]

\* whether a statement holds an IN list without elements
HasEmptyInList(stmt) ==
    /\ stmt.type = "Query"
    /\ stmt.query.body.type = "Select"
    /\ stmt.query.body.select.selection.some
    /\ stmt.query.body.select.selection.value.type = "InList"
    /\ stmt.query.body.select.selection.value.list = <<>>

\* the text between the whitespace before a statement and the ";" after it
Trimmed(text) ==
    LET from == Span(text, 1, Whitespace) + 1
        to   == IF ends_with(text, ";") THEN Len(text) - 1 ELSE Len(text)
    IN  SubSeq(text, from, to)

\* the first word of a text
FirstWord(text) == SubSeq(text, 1, Span(text, 1, WordChar))

\* Dialect::supports_in_empty_list of MySqlDialect, which the sqlparser crate
\* decides: whether parse_sql accepts "IN ()"
VARIABLE supports_in_empty_list

\* the texts between the ";" of a text from index i on, each without the
\* whitespace before it, the empty ones left out: the parser takes any number of
\* ";" between statements
RECURSIVE PiecesFrom(_, _)
PiecesFrom(text, i) ==
    IF i > Len(text) THEN <<>>
    ELSE LET n     == Span(text, i, {text[k] : k \in 1..Len(text)} \ {";"})
             raw   == SubSeq(text, i, i + n - 1)
             piece == SubSeq(raw, Span(raw, 1, Whitespace) + 1, Len(raw))
         IN  (IF piece = <<>> THEN <<>> ELSE <<piece>>) \o PiecesFrom(text, i + n + 1)

Pieces(text) == PiecesFrom(text, 1)

\* the statement the parser reads from each text that Display writes
Read == [text \in {Display[t] : t \in Trees} |-> CHOOSE t \in Trees : Display[t] = text]

\* Parser::parse_sql(&MySqlDialect, text).  A text without a statement gives the
\* empty Vec; the text that Display writes for a statement of Trees gives that
\* statement, "x=1" being read as "x = 1"; statements follow one another after
\* ";"; any other text is an error, whose message names what the parser expected
\* and found.
parse_sql(text) ==
    LET pieces == Pieces(text)
        bodies == [k \in 1..Len(pieces) |->
                     IF pieces[k] = Trimmed(QueryMulti) THEN Display[SelectWhereX]
                     ELSE pieces[k]]
        unknown == {k \in 1..Len(pieces) : bodies[k] \notin DOMAIN Read}
        first == CHOOSE k \in unknown : \A l \in unknown : k <= l
    IN  IF unknown # {}
        THEN [ok |-> FALSE, err |-> ExpectedStatement \o FirstWord(bodies[first])]
        ELSE IF ~supports_in_empty_list
                /\ \E k \in 1..Len(pieces) : HasEmptyInList(Read[bodies[k]])
        THEN [ok |-> FALSE, err |-> ExpectedExpression]
        ELSE [ok |-> TRUE, ast |-> [k \in 1..Len(pieces) |-> Read[bodies[k]]]]

\* faulty variant: the message without the query text
normalize_without_text(entry) ==
    LET parser_result == parse_sql(entry.query)
    IN  [entry |-> entry,
         normalized_query |->
            IF parser_result.ok THEN normalize_ast(parser_result.ast)
            ELSE UnparseablePrefix \o <<"(">> \o parser_result.err \o <<")">>]

\* normalize: the entry with its normalized query
normalize(entry) ==
    LET parser_result == parse_sql(entry.query)
    IN  [entry |-> entry,
         normalized_query |->
            IF parser_result.ok THEN normalize_ast(parser_result.ast)
            ELSE UnparseablePrefix \o entry.query \o <<" ", "(">> \o parser_result.err
                 \o <<")">>]

\* "fo"
PatFo ==
    <<"f", "o">>

\* "FROM"
PatFrom ==
    <<"F", "R", "O", "M">>

(***************************************************************************)
(* The filters of src/filters/.  A filter is a record; a compiled regex is *)
(* its pattern, and the patterns of the model are literal texts, which     *)
(* Regex::is_match finds anywhere in the haystack.                         *)
(***************************************************************************)
UserEquals(name) == [kind |-> "UserEquals", name |-> name]

UserMatches(pattern) == [kind |-> "UserMatches", regex |-> pattern]

QueryMatches(pattern) == [kind |-> "QueryMatches", regex |-> pattern]

QueryTimeGreaterThan(msec) == [kind |-> "QueryTimeGreaterThan", msec |-> msec]

QueryTimeLessThan(msec) == [kind |-> "QueryTimeLessThan", msec |-> msec]

Not(filter) == [kind |-> "Not", filter |-> filter]

\* Regex::is_match for a pattern of literal characters
is_match(regex, haystack) == \E i \in 1..(Len(haystack) + 1) : HasAt(haystack, i, regex)

\* faulty variant: to the nearest millisecond
whole_milliseconds_rounded(usec) == (usec + 500) \div 1000

\* Duration::whole_milliseconds of a duration held in microseconds: toward zero
whole_milliseconds(usec) == IF usec >= 0 THEN usec \div 1000 ELSE -((-usec) \div 1000)

\* Duration::whole_microseconds
whole_microseconds(usec) == usec

\* Filter::matches, by implementation
RECURSIVE matches(_, _)
matches(f, log_entry) ==
    CASE f.kind = "UserEquals" -> f.name = log_entry.user
      [] f.kind = "UserMatches" -> is_match(f.regex, log_entry.user)
      [] f.kind = "QueryMatches" -> is_match(f.regex, log_entry.query)
      [] f.kind = "QueryTimeGreaterThan" -> whole_milliseconds(log_entry.query_time) >= f.msec
      [] f.kind = "QueryTimeLessThan" -> whole_milliseconds(log_entry.query_time) <= f.msec
      [] f.kind = "Not" -> ~matches(f.filter, log_entry)

\* faulty variant: any() for all()
any_match(fs, entry) == \E i \in 1..Len(fs) : matches(fs[i], entry)

\* filters.iter().all(|filter| filter.matches(entry)): in order, stopping at the
\* first filter that does not match
RECURSIVE all_match(_, _)
all_match(fs, entry) ==
    IF fs = <<>> THEN TRUE
    ELSE IF ~matches(Head(fs), entry) THEN FALSE
    ELSE all_match(Tail(fs), entry)

\* the closure handed to filter() in the three render functions
retained(fs, entry) == fs = <<>> \/ all_match(fs, entry)

\* entries.into_par_iter().filter(..).collect(): rayon's collect keeps the order
\* of the items
filter_collect(es, fs) == SelectSeq(es, LAMBDA e : retained(fs, e))

(***************************************************************************)
(* src/opt.rs: the filter definitions given with --filter and what         *)
(* parse_opts makes of them.                                               *)
(***************************************************************************)
\* "user"
NameUser ==
    <<"u", "s", "e", "r">>

\* "query"
NameQuery ==
    <<"q", "u", "e", "r", "y">>

\* "query_time"
NameQueryTime ==
    <<"q", "u", "e", "r", "y", "_", "t", "i", "m", "e">>

\* "="
OpEq ==
    <<"=">>

\* "!="
OpNe ==
    <<"!", "=">>

\* "~="
OpMatch ==
    <<"~", "=">>

\* "<"
OpLt ==
    <<"<">>

\* "<="
OpLe ==
    <<"<", "=">>

\* ">"
OpGt ==
    <<">">>

\* ">="
OpGe ==
    <<">", "=">>

\* [=<>!~]
OpChar == {"=", "<", ">", "!", "~"}

\* REGEX of parse_filter, ^(?P<name>\w+)\s*(?P<op>[=<>!~]+)\s*(?P<value>.+)$, on
\* arg.  Each repetition takes all it can; when nothing is left for the value,
\* which needs one character, the second \s* gives its last character back, and
\* failing that the operator does.
filter_regex(arg) ==
    LET n    == Span(arg, 1, WordChar)
        s1   == Span(arg, n + 1, Whitespace)
        o    == Span(arg, n + s1 + 1, OpChar)
        s2   == Span(arg, n + s1 + o + 1, Whitespace)
        rest == n + s1 + o + s2 + 1
        caps(oplen, from) ==
            [ok |-> TRUE, name |-> SubSeq(arg, 1, n),
             op |-> SubSeq(arg, n + s1 + 1, n + s1 + oplen),
             value |-> SubSeq(arg, from, Len(arg))]
    IN  IF n = 0 \/ o = 0 THEN NoMatch
        ELSE IF rest <= Len(arg) THEN caps(o, rest)
        ELSE IF s2 > 0 THEN caps(o, Len(arg))
        ELSE IF o > 1 THEN caps(o - 1, Len(arg))
        ELSE NoMatch

\* Regex::new(&pattern) is Ok: the patterns of the model are literal texts of word
\* characters and spaces, which compile, and "(", which does not
Regex_new_ok(pattern) == \A i \in 1..Len(pattern) : pattern[i] \in WordChar \cup {" "}

\* Result::Ok, Result::Err and a panic of create_filter
Ok(filter) == [ok |-> TRUE, filter |-> filter]

Err(message) == [ok |-> FALSE, panicked |-> FALSE, message |-> message]

Panicked(message) == [ok |-> FALSE, panicked |-> TRUE, message |-> message]

\* (1000.0 * time) as i64 for the f64 that value parses to, computed in decimal:
\* the whole part, then the first three digits of the fraction (exact for the
\* values of the model)
msec_of(value) ==
    LET dot   == IF \E i \in 1..Len(value) : value[i] = "."
                 THEN CHOOSE i \in 1..Len(value) : value[i] = "."
                 ELSE Len(value) + 1
        whole == SubSeq(value, 1, dot - 1)
        frac  == SubSeq(value, dot + 1, Len(value))
        three == [k \in 1..3 |-> IF k <= Len(frac) THEN frac[k] ELSE "0"]
    IN  DecValue(whole) * 1000 + DecValue(three)

\* value.parse::<f64>() is Ok: the values of the model are texts of digits and
\* dots, for which ParsesAsF64 decides, and texts of letters, which do not parse
value_parses(value) ==
    /\ \A i \in 1..Len(value) : value[i] \in Digit \cup {"."}
    /\ ParsesAsF64(value)

\* UserMatches::new and QueryMatches::new: Err when the pattern does not compile
Matches_new(kind, pattern) ==
    IF Regex_new_ok(pattern)
    THEN Ok([kind |-> kind, regex |-> pattern])
    ELSE Err("Invalid regular expression")

create_filter(name, op, value) ==
    CASE name = NameUser ->
           (CASE op = OpEq -> Ok(UserEquals(value))
              [] op = OpNe -> Ok(Not(UserEquals(value)))
              [] op = OpMatch -> Matches_new("UserMatches", value)
              [] OTHER -> Err("User filter expects one of '=', '!=' or '~='"))
      [] name = NameQuery ->
           (CASE op = OpMatch -> Matches_new("QueryMatches", value)
              [] OTHER -> Err("Query filter only supports '~='"))
      [] name = NameQueryTime ->
           IF ~value_parses(value)
           THEN Panicked("Query time filter requires a numeric argument")
           ELSE (CASE op \in {OpLt, OpLe} -> Ok(QueryTimeLessThan(msec_of(value)))
                   [] op \in {OpGt, OpGe} -> Ok(QueryTimeGreaterThan(msec_of(value)))
                   [] OTHER -> Err("Query time filter expects one of '<', '<=', '>' or '>='"))
      [] OTHER -> Err("Unknown filter name")

parse_filter(arg) ==
    LET caps == filter_regex(arg)
    IN  IF ~caps.ok THEN Err("Invalid filter format")
        ELSE create_filter(caps.name, caps.op, caps.value)

\* "query_time>500"
DefQueryTimeGt500 ==
    <<"q", "u", "e", "r", "y", "_", "t", "i", "m", "e", ">", "5", "0", "0">>

\* "query_time>0.5"
DefQueryTimeGtHalf ==
    <<"q", "u", "e", "r", "y", "_", "t", "i", "m", "e", ">", "0", ".", "5">>

\* "query_time <= 1"
DefQueryTimeLeOne ==
    <<"q", "u", "e", "r", "y", "_", "t", "i", "m", "e", " ", "<", "=", " ", "1">>

\* "query_time=1"
DefQueryTimeEqOne ==
    <<"q", "u", "e", "r", "y", "_", "t", "i", "m", "e", "=", "1">>

\* "query_time=abc"
DefQueryTimeEqAbc ==
    <<"q", "u", "e", "r", "y", "_", "t", "i", "m", "e", "=", "a", "b", "c">>

\* "query_time>abc"
DefQueryTimeGtAbc ==
    <<"q", "u", "e", "r", "y", "_", "t", "i", "m", "e", ">", "a", "b", "c">>

\* "user=foo"
DefUserEqFoo ==
    <<"u", "s", "e", "r", "=", "f", "o", "o">>

\* "user!=foo"
DefUserNeFoo ==
    <<"u", "s", "e", "r", "!", "=", "f", "o", "o">>

\* "user~=fo"
DefUserMatchFo ==
    <<"u", "s", "e", "r", "~", "=", "f", "o">>

\* "user~=("
DefUserMatchBad ==
    <<"u", "s", "e", "r", "~", "=", "(">>

\* "user>foo"
DefUserGtFoo ==
    <<"u", "s", "e", "r", ">", "f", "o", "o">>

\* "query~=FROM"
DefQueryMatchFrom ==
    <<"q", "u", "e", "r", "y", "~", "=", "F", "R", "O", "M">>

\* "query=FROM"
DefQueryEqFrom ==
    <<"q", "u", "e", "r", "y", "=", "F", "R", "O", "M">>

\* "host=db1"
DefHostEqDb1 ==
    <<"h", "o", "s", "t", "=", "d", "b", "1">>

\* "user"
DefNoOperator ==
    <<"u", "s", "e", "r">>

\* the definitions a run may be given with --filter
FilterDefs ==
    {DefQueryTimeGt500, DefQueryTimeGtHalf, DefQueryTimeLeOne, DefQueryTimeEqOne,
     DefQueryTimeEqAbc, DefQueryTimeGtAbc, DefUserEqFoo, DefUserNeFoo,
     DefUserMatchFo, DefUserMatchBad, DefUserGtFoo, DefQueryMatchFrom,
     DefQueryEqFrom, DefHostEqDb1, DefNoOperator}

(***************************************************************************)
(* src/aggregate.rs                                                        *)
(***************************************************************************)
\* AggregateLogEntry::new
AggregateLogEntry_new(query_, query_time) ==
    [query |-> query_, count |-> 1, total_query_time |-> query_time,
     avg_query_time |-> query_time, max_query_time |-> query_time]

\* faulty variant: the average taken from the new total
update_with_mean(self, query_time) ==
    [self EXCEPT
       !.total_query_time = self.total_query_time + query_time,
       !.max_query_time = IF self.max_query_time >= query_time THEN self.max_query_time
                          ELSE query_time,
       !.avg_query_time = (self.total_query_time + query_time) \div (self.count + 1),
       !.count = self.count + 1]

\* faulty variant: the latest time taken for the maximum
update_with_last_max(self, query_time) ==
    [self EXCEPT
       !.total_query_time = self.total_query_time + query_time,
       !.max_query_time = query_time,
       !.avg_query_time = (self.avg_query_time * self.count + query_time)
                          \div (self.count + 1),
       !.count = self.count + 1]

\* faulty variant: the average rounded up
update_with_ceil(self, query_time) ==
    [self EXCEPT
       !.total_query_time = self.total_query_time + query_time,
       !.max_query_time = IF self.max_query_time >= query_time THEN self.max_query_time
                          ELSE query_time,
       !.avg_query_time = (self.avg_query_time * self.count + query_time + self.count)
                          \div (self.count + 1),
       !.count = self.count + 1]

\* AggregateLogEntry::update_with; Rust's / on integers truncates toward zero,
\* which for the non-negative times of the model is \div
update_with(self, query_time) ==
    [self EXCEPT
       !.total_query_time = self.total_query_time + query_time,
       !.max_query_time = IF self.max_query_time >= query_time THEN self.max_query_time
                          ELSE query_time,
       !.avg_query_time = (self.avg_query_time * self.count + query_time)
                          \div (self.count + 1),
       !.count = self.count + 1]

\* faulty variant: insert whether or not the key is there
aggregate_one_insert(result_, key, query_time) ==
    [k \in DOMAIN result_ \cup {key} |->
       IF k = key THEN AggregateLogEntry_new(key, query_time) ELSE result_[k]]

\* one turn of the for_each of aggregate_entries and aggregate_normalized: the map
\* after the entry of key `key` and time `query_time`
aggregate_one(result_, key, query_time) ==
    IF key \in DOMAIN result_
    THEN [result_ EXCEPT ![key] = update_with(result_[key], query_time)]
    ELSE [k \in DOMAIN result_ \cup {key} |->
            IF k = key THEN AggregateLogEntry_new(key, query_time) ELSE result_[k]]

\* HashMap::new()
EmptyMap == [k \in {} |-> 0]

(***************************************************************************)
(* src/summarize.rs                                                        *)
(***************************************************************************)
\* entries.values().fold(0, |acc, val| acc + val.count), over the keys ks
RECURSIVE FoldCount(_, _)
FoldCount(es, ks) ==
    IF ks = {} THEN 0
    ELSE LET k == CHOOSE x \in ks : TRUE
         IN  es[k].count + FoldCount(es, ks \ {k})

\* entries.values().fold(0, |acc, val| max(acc, val.max_query_time))
RECURSIVE FoldMax(_, _)
FoldMax(es, ks) ==
    IF ks = {} THEN 0
    ELSE LET k    == CHOOSE x \in ks : TRUE
             rest == FoldMax(es, ks \ {k})
         IN  IF es[k].max_query_time >= rest THEN es[k].max_query_time ELSE rest

\* entries.values().fold(0, |acc, val| acc + val.avg_query_time * val.count)
RECURSIVE FoldTime(_, _)
FoldTime(es, ks) ==
    IF ks = {} THEN 0
    ELSE LET k == CHOOSE x \in ks : TRUE
         IN  es[k].avg_query_time * es[k].count + FoldTime(es, ks \ {k})

\* the divisor of summarize_aggregates
total_queries_of(es) == FoldCount(es, DOMAIN es)

\* summarize_aggregates where its division is defined
summarize_aggregates(es) ==
    [computed |-> TRUE,
     total_queries |-> total_queries_of(es),
     unique_queries |-> Cardinality(DOMAIN es),
     max_execution_time |-> FoldMax(es, DOMAIN es),
     avg_execution_time |-> FoldTime(es, DOMAIN es) \div total_queries_of(es)]

(***************************************************************************)
(* State.                                                                  *)
(***************************************************************************)
VARIABLES
    log,          \* the input, as segments
    opt,          \* main: the options parse_opts returned
    filters,      \* main: the filters parse_opts returned
    pos,          \* parse_log: the number of lines the iterator `lines` has yielded
    pc,           \* where the run stands
    entries,      \* parse_log: the entries pushed so far
    cur,          \* parse_log: timestamp, user, host and metrics of the record in progress
    query,        \* parse_log: the query text accumulated so far
    all_entries,  \* main: what parse_log returned
    filtered,     \* render_*: the collected Vec
    pending,      \* aggregate_*: what entries.into_iter() has still to yield
    result,       \* aggregate_*: the map under construction
    aggregated,   \* render_*: the map aggregate_* returned
    normalized,   \* render_normalized: the collected Vec
    printed,      \* whether the run has written its report
    summary,      \* what summarize_aggregates returned
    filter_defs,  \* parse_opts: opt.filters, the definitions given with --filter
    failure,      \* the error or panic message that ended the run, "" when none did
    work          \* render_*: what the workers of the parallel iterator have produced

render == <<filtered, normalized, pending, result, aggregated, printed, summary>>

\* what parse_log and the render functions run as one step leave alone
others == <<filter_defs, failure, work, supports_in_empty_list>>

vars == <<log, opt, filters, pos, pc, entries, cur, query, all_entries, render, others>>

lines == Flatten(log)

\* the fields of the record in progress before any header line is read
NoFields ==
    [timestamp |-> <<>>, user |-> <<>>, host |-> <<>>, query_time |-> 0, lock_time |-> 0,
     rows_sent |-> 0, rows_examined |-> 0]

\* the LogEntry parse_log pushes
LogEntry(c, q) ==
    [timestamp |-> c.timestamp, user |-> c.user, host |-> c.host,
     query_time |-> c.query_time, lock_time |-> c.lock_time,
     rows_sent |-> c.rows_sent, rows_examined |-> c.rows_examined,
     query |-> whitespace_replace_all(q)]

NoSummary == [computed |-> FALSE]

NoFailure == ""

\* the --aggregate and --normalize flags
Opts == [aggregate : BOOLEAN, normalize : BOOLEAN]

\* before parse_log and the render functions have run
Fresh ==
    /\ pos = 0
    /\ entries = <<>>
    /\ cur = NoFields
    /\ query = <<>>
    /\ all_entries = <<>>
    /\ filtered = <<>>
    /\ normalized = <<>>
    /\ pending = <<>>
    /\ result = EmptyMap
    /\ aggregated = EmptyMap
    /\ printed = FALSE
    /\ summary = NoSummary
    /\ failure = NoFailure
    /\ work = <<>>

\* main, run without --filter and without --normalize, as parse_opts has returned
Init ==
    /\ log \in Logs
    /\ opt \in {o \in Opts : ~o.normalize}
    /\ filter_defs = <<>>
    /\ supports_in_empty_list = FALSE
    /\ filters = <<>>
    /\ pc = "seek"
    /\ Fresh

(***************************************************************************)
(* parse_log, one step per line read.                                      *)
(***************************************************************************)
AtEnd == pos = Len(lines)

NextLine == Text[lines[pos + 1]]

\* `break` out of the outer loop, or its end: parse_log returns `entries`
Return ==
    /\ pc' = "parsed"
    /\ all_entries' = entries
    /\ UNCHANGED <<others, log, pos, entries, cur, query, opt, filters, render>>

\* faulty variant: `break` where the code panics
PanicAsBreak == Return

\* panic!, unwrap() or expect() failing: the process ends
Panic ==
    /\ pc' = "panic"
    /\ UNCHANGED <<others, log, pos, entries, cur, query, all_entries, opt, filters, render>>

\* faulty variant: the marker with its colon
IsTimeMarkerWithColon(line) == starts_with(line, <<"#", " ", "T", "i", "m", "e", ":">>)

\* faulty variant: the word anywhere in the line
IsTimeMarkerUnanchored(line) ==
    \E i \in 1..Len(line) : HasAt(line, i, <<"T", "i", "m", "e">>)

\* whether a line read while no record is in progress starts one
IsTimeMarker(line) == starts_with(line, TimeMarker)

\* the outer loop: read a line, skip it unless it starts a time marker
SeekHeader ==
    /\ pc = "seek"
    /\ IF AtEnd THEN Return
       ELSE IF ~IsTimeMarker(NextLine)
            THEN /\ pos' = pos + 1
                 /\ UNCHANGED <<others, log, pc, entries, cur, query, all_entries, opt, filters, render>>
       ELSE IF ~time_regex(NextLine).ok \/ ~ParsesAsIso8601(time_regex(NextLine).cap1)
            THEN Panic
       ELSE /\ pos' = pos + 1
            /\ cur' = [NoFields EXCEPT !.timestamp = time_regex(NextLine).cap1]
            /\ pc' = "user"
            /\ UNCHANGED <<others, log, entries, query, all_entries, opt, filters, render>>

\* the line after the time line
ReadUserHost ==
    /\ pc = "user"
    /\ IF AtEnd THEN Return
       ELSE IF ~user_regex(NextLine).ok THEN Panic
       ELSE LET caps == user_regex(NextLine)
            IN  /\ pos' = pos + 1
                /\ cur' = [cur EXCEPT !.user = caps.cap1,
                                      !.host = IF caps.cap2 = <<>> THEN caps.cap3
                                               ELSE caps.cap2]
                /\ pc' = "metric"
                /\ UNCHANGED <<others, log, entries, query, all_entries, opt, filters, render>>

\* the line after the user/host line
ReadMetrics ==
    /\ pc = "metric"
    /\ IF AtEnd THEN Return
       ELSE IF ~metric_regex(NextLine).ok THEN Panic
       ELSE LET caps == metric_regex(NextLine)
            IN  IF ~(/\ ParsesAsF64(caps.cap1) /\ ParsesAsF64(caps.cap2)
                     /\ ParsesAsI32(caps.cap3) /\ ParsesAsI32(caps.cap4))
                THEN Panic
                ELSE /\ pos' = pos + 1
                     /\ cur' = [cur EXCEPT
                                  !.query_time = microseconds_to_duration(caps.cap1),
                                  !.lock_time = microseconds_to_duration(caps.cap2),
                                  !.rows_sent = DecValue(caps.cap3),
                                  !.rows_examined = DecValue(caps.cap4)]
                     /\ pc' = "preamble"
                     /\ UNCHANGED <<others, log, entries, query, all_entries, opt, filters, render>>

\* faulty variant: the "use" lines are not skipped
IsPreambleSetOnly(line) == starts_with(line, SetTimestampPrefix)

\* what advance_while consumes
IsPreamble(line) == starts_with(line, SetTimestampPrefix) \/ starts_with(line, UsePrefix)

\* the number of lines from index i on that advance_while consumes
RECURSIVE PreambleRun(_)
PreambleRun(i) ==
    IF i <= Len(lines) /\ IsPreamble(Text[lines[i]]) THEN 1 + PreambleRun(i + 1) ELSE 0

\* lines.by_ref().advance_while(..): peek and consume while the predicate holds
SkipPreamble ==
    /\ pc = "preamble"
    /\ pos' = pos + PreambleRun(pos + 1)
    /\ pc' = "query"
    /\ UNCHANGED <<others, log, entries, cur, query, all_entries, opt, filters, render>>

\* the first line of the query
ReadQuery ==
    /\ pc = "query"
    /\ IF AtEnd THEN Return
       ELSE /\ pos' = pos + 1
            /\ query' = NextLine
            /\ pc' = "accum"
            /\ UNCHANGED <<others, log, entries, cur, all_entries, opt, filters, render>>

\* entries.push(LogEntry {..}), then the outer loop again
PushEntry ==
    /\ entries' = Append(entries, LogEntry(cur, query))
    /\ pc' = "seek"
    /\ UNCHANGED <<others, log, pos, cur, query, all_entries, opt, filters, render>>

\* the inner loop: once around, or out of it (by its condition or by its `break`,
\* which leaves the inner loop only) to the push
Accumulate ==
    /\ pc = "accum"
    /\ IF ends_with(query, ";") \/ AtEnd THEN PushEntry
       ELSE /\ pos' = pos + 1
            /\ query' = query \o padding(query, NextLine) \o NextLine
            /\ UNCHANGED <<others, log, pc, entries, cur, all_entries, opt, filters, render>>

(***************************************************************************)
(* main after parse_log: the render function its options select.           *)
(***************************************************************************)
\* the (key, query_time) aggregate_entries takes from each entry
EntryKeys(es) == [i \in 1..Len(es) |-> [key |-> es[i].query,
                                         query_time |-> whole_microseconds(es[i].query_time)]]

\* render_individual: filter, collect, print
RenderIndividual ==
    /\ pc = "parsed"
    /\ ~opt.aggregate /\ ~opt.normalize
    /\ filtered' = filter_collect(all_entries, filters)
    /\ printed' = TRUE
    /\ pc' = "exit"
    /\ UNCHANGED <<others, log, opt, filters, pos, entries, cur, query, all_entries,
                   normalized, pending, result, aggregated, summary>>

\* render_aggregated: filter, collect, and into aggregate_entries
RenderAggregated ==
    /\ pc = "parsed"
    /\ opt.aggregate /\ ~opt.normalize
    /\ filtered' = filter_collect(all_entries, filters)
    /\ pending' = EntryKeys(filter_collect(all_entries, filters))
    /\ result' = EmptyMap
    /\ pc' = "aggregate"
    /\ UNCHANGED <<others, log, opt, filters, pos, entries, cur, query, all_entries,
                   normalized, aggregated, printed, summary>>

\* the (key, query_time) aggregate_normalized takes from each entry
NormalizedKeys(ns) ==
    [i \in 1..Len(ns) |-> [key |-> ns[i].normalized_query,
                           query_time |-> whole_microseconds(ns[i].entry.query_time)]]

\* .filter(..).map(normalize).collect()
filter_map_collect(es, fs) ==
    [i \in 1..Len(filter_collect(es, fs)) |-> normalize(filter_collect(es, fs)[i])]

\* render_normalized: filter, normalize, collect, and into aggregate_normalized
RenderNormalized ==
    /\ pc = "parsed"
    /\ opt.normalize
    /\ normalized' = filter_map_collect(all_entries, filters)
    /\ pending' = NormalizedKeys(filter_map_collect(all_entries, filters))
    /\ result' = EmptyMap
    /\ pc' = "aggregate"
    /\ UNCHANGED <<others, log, opt, filters, pos, entries, cur, query, all_entries,
                   filtered, aggregated, printed, summary>>

\* one turn of the for_each of aggregate_entries / aggregate_normalized
AggregateStep ==
    /\ pc = "aggregate"
    /\ pending # <<>>
    /\ result' = aggregate_one(result, Head(pending).key, Head(pending).query_time)
    /\ pending' = Tail(pending)
    /\ UNCHANGED <<others, log, opt, filters, pos, pc, entries, cur, query, all_entries,
                   filtered, normalized, aggregated, printed, summary>>

\* aggregate_* returns its map and print_aggregated writes it
PrintAggregated ==
    /\ pc = "aggregate"
    /\ pending = <<>>
    /\ aggregated' = result
    /\ printed' = TRUE
    /\ pc' = "exit"
    /\ UNCHANGED <<others, log, opt, filters, pos, entries, cur, query, all_entries,
                   filtered, normalized, pending, result, summary>>

\* summarize_aggregates(&aggregated).  main does not call it: the model applies
\* it to the map the aggregating render functions have built.  Its division
\* panics when total_queries is 0.
Summarize ==
    /\ pc = "exit"
    /\ opt.aggregate \/ opt.normalize
    /\ IF total_queries_of(aggregated) = 0
       THEN pc' = "panic" /\ UNCHANGED summary
       ELSE pc' = "summarized" /\ summary' = summarize_aggregates(aggregated)
    /\ UNCHANGED <<others, log, opt, filters, pos, entries, cur, query, all_entries,
                   filtered, normalized, pending, result, aggregated, printed>>

\* main
Next ==
    \/ SeekHeader
    \/ ReadUserHost
    \/ ReadMetrics
    \/ SkipPreamble
    \/ ReadQuery
    \/ Accumulate
    \/ RenderIndividual
    \/ RenderAggregated
    \/ AggregateStep
    \/ PrintAggregated

Spec == Init /\ [][Next]_vars

\* the most lines under the header of the record
MaxLines == 3

\* lines of a query with tabs and runs of spaces in them, and plain ones
QueryLines == {"QTabs", "QSpaces", "QSpaceTab", "QTabEnd", "QOne", "QSel", "QFrom", "QWhere"}

\* main on a log of one header and the lines under it, run without options
InitQuery ==
    /\ log \in {<<<<"TimeOK", "UserFoo", "MetricA">>>> \o ls :
                  ls \in UNION {[1..n -> {<<l>> : l \in QueryLines}] : n \in 0..MaxLines}}
    /\ opt = [aggregate |-> FALSE, normalize |-> FALSE]
    /\ filter_defs = <<>>
    /\ supports_in_empty_list = FALSE
    /\ filters = <<>>
    /\ pc = "seek"
    /\ Fresh

NextQuery ==
    \/ SeekHeader
    \/ ReadUserHost
    \/ ReadMetrics
    \/ SkipPreamble
    \/ ReadQuery
    \/ Accumulate
    \/ RenderIndividual

SpecQuery == InitQuery /\ [][NextQuery]_vars

(***************************************************************************)
(* The render functions and summarize_aggregates on drawn entries and      *)
(* filters.                                                                *)
(***************************************************************************)
\* the longest Vec of entries drawn
MaxEntries == 2

\* the longest list of filters drawn
MaxFilters == 2

\* the entries parse_log returns for the blocks
EntryPool == {ExpectedEntry(b) : b \in Blocks}

FilterPool ==
    {UserEquals(Foo), Not(UserEquals(Foo)), UserMatches(PatFo), QueryMatches(PatFrom),
     QueryTimeGreaterThan(1), QueryTimeGreaterThan(2), QueryTimeLessThan(1)}

\* parse_log has returned (its locals are gone) and parse_opts has compiled the
\* filters
InitRender ==
    /\ log = <<>>
    /\ opt \in Opts
    /\ filters \in UNION {[1..n -> FilterPool] : n \in 0..MaxFilters}
    /\ pc = "parsed"
    /\ pos = 0
    /\ entries = <<>>
    /\ cur = NoFields
    /\ query = <<>>
    /\ all_entries \in UNION {[1..n -> EntryPool] : n \in 0..MaxEntries}
    /\ filtered = <<>>
    /\ normalized = <<>>
    /\ pending = <<>>
    /\ result = EmptyMap
    /\ aggregated = EmptyMap
    /\ printed = FALSE
    /\ summary = NoSummary
    /\ filter_defs = <<>>
    /\ failure = NoFailure
    /\ work = <<>>
    /\ supports_in_empty_list = FALSE

\* one turn of the loop of parse_opts: the next definition is compiled and its
\* filter pushed, or its error ends the run (unwrap_or_else(|error| panic!(..)))
ParseFilter ==
    /\ pc = "opts"
    /\ Len(filters) < Len(filter_defs)
    /\ LET r == parse_filter(filter_defs[Len(filters) + 1])
       IN  IF r.ok
           THEN filters' = Append(filters, r.filter) /\ UNCHANGED <<pc, failure>>
           ELSE pc' = "panic" /\ failure' = r.message /\ UNCHANGED filters
    /\ UNCHANGED <<log, opt, pos, entries, cur, query, all_entries, render, filter_defs, work,
                   supports_in_empty_list>>

\* parse_opts returns, and main calls parse_log
ParseOptsReturn ==
    /\ pc = "opts"
    /\ Len(filters) = Len(filter_defs)
    /\ pc' = "seek"
    /\ UNCHANGED <<log, opt, filters, pos, entries, cur, query, all_entries, render, others>>

\* the most definitions given with --filter
MaxDefs == 2

\* the log of the runs that are given filters: query times of 500 ms, of 1.5 ms
\* and of 600 s
LogOfThree == <<BlockOne, BlockMulti, BlockSlow>>

\* main from its first line, without --normalize
InitOpts ==
    /\ log = LogOfThree
    /\ opt \in {o \in Opts : ~o.normalize}
    /\ filter_defs \in UNION {[1..n -> FilterDefs] : n \in 0..MaxDefs}
    /\ supports_in_empty_list = FALSE
    /\ filters = <<>>
    /\ pc = "opts"
    /\ Fresh

NextOpts ==
    \/ ParseFilter
    \/ ParseOptsReturn
    \/ SeekHeader
    \/ ReadUserHost
    \/ ReadMetrics
    \/ SkipPreamble
    \/ ReadQuery
    \/ Accumulate
    \/ RenderIndividual
    \/ RenderAggregated
    \/ AggregateStep
    \/ PrintAggregated

SpecOpts == InitOpts /\ [][NextOpts]_vars

\* "SELEC 1;"
TextBadSelect ==
    <<"S", "E", "L", "E", "C", " ", "1", ";">>

\* "FROM t;"
TextBadFrom ==
    <<"F", "R", "O", "M", " ", "t", ";">>

\* the query texts of the runs that normalize: each written statement as Display
\* writes it, with its ";", the query of BlockMulti, two texts that are no
\* statement, and the empty text
QueryTexts ==
    {ShowStatement(t) \o <<";">> : t \in WrittenTrees}
    \cup {QueryMulti, TextBadSelect, TextBadFrom, <<>>}

\* the most entries of a run that normalizes
MaxQueries == 2

\* parse_log has returned entries with these queries; main runs with --normalize
\* and without --filter
InitNormalize ==
    /\ log = <<>>
    /\ opt = [aggregate |-> FALSE, normalize |-> TRUE]
    /\ filter_defs = <<>>
    /\ supports_in_empty_list \in BOOLEAN
    /\ filters = <<>>
    /\ pc = "parsed"
    /\ pos = 0
    /\ entries = <<>>
    /\ cur = NoFields
    /\ query = <<>>
    /\ all_entries \in UNION {[1..n -> {[ExpectedEntry(BlockOne) EXCEPT !.query = q] :
                                          q \in QueryTexts}] : n \in 0..MaxQueries}
    /\ filtered = <<>>
    /\ normalized = <<>>
    /\ pending = <<>>
    /\ result = EmptyMap
    /\ aggregated = EmptyMap
    /\ printed = FALSE
    /\ summary = NoSummary
    /\ failure = NoFailure
    /\ work = <<>>

NextNormalize ==
    \/ RenderNormalized
    \/ AggregateStep
    \/ PrintAggregated

SpecNormalize == InitNormalize /\ [][NextNormalize]_vars

\* "SELECT 1; SELECT 1234;"
TextTwoStatements ==
    QueryOne \o <<" ">> \o QueryWrapped

\* "SELECT 1; SELECT 1234; SELECT * FROM t;"
TextThreeStatements ==
    TextTwoStatements \o <<" ">> \o Select \o <<"*">> \o From \o <<"t", ";">>

\* the query texts of the runs that rewrite: literals of each kind, a literal in
\* each kind of node, and texts of one, two and three statements
RewriteTexts ==
    {ShowStatement(t) \o <<";">> : t \in NestedTrees \cup {SelectWhereValue(v) : v \in Literals}}
    \cup {QueryOne, TextTwoStatements, TextThreeStatements}

\* the most entries of a run that rewrites
MaxRewrites == 2

\* parse_log has returned entries with these queries; main runs with --normalize
\* and without --filter
InitRewrite ==
    /\ log = <<>>
    /\ opt = [aggregate |-> FALSE, normalize |-> TRUE]
    /\ filter_defs = <<>>
    /\ supports_in_empty_list = FALSE
    /\ filters = <<>>
    /\ pc = "parsed"
    /\ pos = 0
    /\ entries = <<>>
    /\ cur = NoFields
    /\ query = <<>>
    /\ all_entries \in UNION {[1..n -> {[ExpectedEntry(BlockOne) EXCEPT !.query = q] :
                                          q \in RewriteTexts}] : n \in 0..MaxRewrites}
    /\ filtered = <<>>
    /\ normalized = <<>>
    /\ pending = <<>>
    /\ result = EmptyMap
    /\ aggregated = EmptyMap
    /\ printed = FALSE
    /\ summary = NoSummary
    /\ failure = NoFailure
    /\ work = <<>>

SpecRewrite == InitRewrite /\ [][NextNormalize]_vars

\* an item of the parallel iterator that no worker has taken yet
Todo == [done |-> FALSE]

\* what a worker makes of one entry: the closure of filter(), and in
\* render_normalized map(normalize) on what it lets through
worker_output(e) ==
    [done |-> TRUE,
     out |-> IF retained(filters, e)
             THEN Some(IF opt.normalize THEN normalize(e) ELSE e)
             ELSE None]

\* faulty variant: the outputs in the reverse order of the items
par_collect_reversed(w) ==
    LET kept == SelectSeq([i \in 1..Len(w) |-> w[Len(w) + 1 - i].out], LAMBDA x : x.some)
    IN  [i \in 1..Len(kept) |-> kept[i].value]

\* collect() into a Vec: the outputs of the workers in the order of the items,
\* whichever worker produced them and when
par_collect(w) ==
    LET kept == SelectSeq([i \in 1..Len(w) |-> w[i].out], LAMBDA x : x.some)
    IN  [i \in 1..Len(kept) |-> kept[i].value]

\* entries.into_par_iter() in render_aggregated and render_normalized: the
\* entries are handed to the worker pool
IntoParIter ==
    /\ pc = "parsed"
    /\ opt.aggregate \/ opt.normalize
    /\ work' = [i \in 1..Len(all_entries) |-> Todo]
    /\ pc' = "par"
    /\ UNCHANGED <<log, opt, filters, pos, entries, cur, query, all_entries, render,
                   filter_defs, failure, supports_in_empty_list>>

\* a worker takes any entry not yet taken and runs the closures on it
Worker ==
    /\ pc = "par"
    /\ \E i \in 1..Len(work) :
          /\ ~work[i].done
          /\ work' = [work EXCEPT ![i] = worker_output(all_entries[i])]
    /\ UNCHANGED <<log, opt, filters, pos, pc, entries, cur, query, all_entries, render,
                   filter_defs, failure, supports_in_empty_list>>

\* collect() returns once every entry is done, and the Vec goes into
\* aggregate_entries or aggregate_normalized
Collect ==
    /\ pc = "par"
    /\ \A i \in 1..Len(work) : work[i].done
    /\ IF opt.normalize
       THEN /\ normalized' = par_collect(work)
            /\ pending' = NormalizedKeys(par_collect(work))
            /\ UNCHANGED filtered
       ELSE /\ filtered' = par_collect(work)
            /\ pending' = EntryKeys(par_collect(work))
            /\ UNCHANGED normalized
    /\ result' = EmptyMap
    /\ pc' = "aggregate"
    /\ UNCHANGED <<log, opt, filters, pos, entries, cur, query, all_entries,
                   aggregated, printed, summary, others>>

\* the most entries handed to the worker pool
MaxItems == 3

\* entries of query times 100, 300 and 301 microseconds: two of one query, and
\* one whose query normalizes as theirs does
ItemPool ==
    {[ExpectedEntry(BlockOne) EXCEPT !.query_time = 100],
     [ExpectedEntry(BlockOne) EXCEPT !.query_time = 300],
     [ExpectedEntry(BlockWrapped) EXCEPT !.query_time = 301],
     [ExpectedEntry(BlockMulti) EXCEPT !.query_time = 301]}

\* parse_log has returned; main runs with --aggregate or --normalize, without
\* filter or with one
InitParallel ==
    /\ log = <<>>
    /\ opt \in {o \in Opts : o.aggregate # o.normalize}
    /\ filter_defs = <<>>
    /\ supports_in_empty_list = FALSE
    /\ filters \in {<<>>, <<Not(UserEquals(Bob))>>}
    /\ pc = "parsed"
    /\ pos = 0
    /\ entries = <<>>
    /\ cur = NoFields
    /\ query = <<>>
    /\ all_entries \in UNION {[1..n -> ItemPool] : n \in 0..MaxItems}
    /\ filtered = <<>>
    /\ normalized = <<>>
    /\ pending = <<>>
    /\ result = EmptyMap
    /\ aggregated = EmptyMap
    /\ printed = FALSE
    /\ summary = NoSummary
    /\ failure = NoFailure
    /\ work = <<>>

NextParallel ==
    \/ IntoParIter
    \/ Worker
    \/ Collect
    \/ AggregateStep
    \/ PrintAggregated

SpecParallel == InitParallel /\ [][NextParallel]_vars

NextRender ==
    \/ RenderIndividual
    \/ RenderAggregated
    \/ RenderNormalized
    \/ AggregateStep
    \/ PrintAggregated
    \/ Summarize

SpecRender == InitRender /\ [][NextRender]_vars

\* every segment is a well-formed block or a line that starts no time marker
WellFormed(segs) == \A i \in 1..Len(segs) : segs[i] \in Blocks \cup NoiseLines

\* the blocks of a log, in order
BlocksOf(segs) == SelectSeq(segs, LAMBDA s : s \in Blocks)

ParserPcs == {"seek", "user", "metric", "preamble", "query", "accum"}

\* parse_log has returned
Returned == pc \in {"parsed", "aggregate", "exit"}

(***************************************************************************)
(* Claims.                                                                 *)
(***************************************************************************)
\* C1: for a log made of well-formed blocks and of lines that do not start with
\* "# Time" (before, between and after the blocks), parse_log does not fail and
\* returns exactly the entries of the blocks, one per block, in the order of the
\* blocks: the other lines change neither their number nor their content.
C1_OneEntryPerBlock ==
    WellFormed(log) =>
        /\ pc # "panic"
        /\ Returned =>
              all_entries = [i \in 1..Len(BlocksOf(log)) |-> ExpectedEntry(BlocksOf(log)[i])]

\* C1 witness: two different blocks with a noise line between them, parsed
C1_Witness ==
    /\ pc = "parsed"
    /\ log = <<BlockMulti, <<"Noise">>, BlockWrapped>>
    /\ Len(all_entries) = 2

\* the text the claim describes for query lines ls: each line after the first
\* joined by one space, or by nothing between two digits
RECURSIVE JoinedLines(_)
JoinedLines(ls) ==
    IF Len(ls) = 1 THEN ls[1]
    ELSE LET sofar == JoinedLines(SubSeq(ls, 1, Len(ls) - 1))
             last  == ls[Len(ls)]
         IN  IF sofar # <<>> /\ sofar[Len(sofar)] \in Digit /\ last # <<>> /\ last[1] \in Digit
             THEN sofar \o last
             ELSE sofar \o <<" ">> \o last

\* the texts of lines q..pos
TextsFrom(q) == [i \in 1..(pos - q + 1) |-> Text[lines[q + i - 1]]]

\* C2: while a query is accumulated, the text so far is the lines read for it,
\* from the first line after the metrics line and the preamble up to the last line
\* read, joined by one space each except between two digits, and no line before
\* the last one read ends with ";"; the three lines "SELECT *", " FROM t",
\* " WHERE x=1;" are returned as "SELECT * FROM t WHERE x=1;".
C2_JoinWithSpace ==
    /\ pc = "accum" =>
          \E q \in 1..pos :
             /\ q > 1
             /\ metric_regex(Text[lines[q - 1]]).ok \/ IsPreamble(Text[lines[q - 1]])
             /\ query = JoinedLines(TextsFrom(q))
             /\ \A i \in q..(pos - 1) : ~ends_with(Text[lines[i]], ";")
    /\ (Returned /\ log = <<BlockMulti>>) => all_entries[1].query = QueryMulti

\* C2 witness: the wrapped number has been joined without a space
C2_Witness ==
    /\ pc = "accum"
    /\ log = <<BlockWrapped>>
    /\ pos = Len(BlockWrapped)
    /\ query = QueryWrapped

\* C3: a line after the time line that does not match the user/host pattern, and
\* a line after that one that does not match the metrics pattern, end the run: the
\* run stops there for good, parse_log has returned nothing (the entries of the
\* blocks before it included), and nothing is filtered, aggregated or printed.
C3_MalformedHeaderAborts ==
    /\ [][(\/ pc = "user" /\ ~AtEnd /\ ~user_regex(NextLine).ok
           \/ pc = "metric" /\ ~AtEnd /\ ~metric_regex(NextLine).ok) => pc' = "panic"]_vars
    /\ [](pc = "panic" =>
             /\ ~ENABLED Next
             /\ all_entries = <<>> /\ filtered = <<>> /\ DOMAIN aggregated = {} /\ ~printed)

\* C3 witness: a complete block, then a time line followed by a line that is no
\* user/host line: the run has stopped with one entry parsed and none returned
C3_Witness ==
    /\ pc = "panic"
    /\ log = <<BlockOne, <<"TimeOK">>, <<"Noise">>>>
    /\ Len(entries) = 1
    /\ all_entries = <<>>

\* C4 as claimed: no line read while seeking a header is fatal.
C4_SeekingNeverFatal == [][pc = "seek" => pc' # "panic"]_vars

\* C4: while seeking a header, a line that does not start with "# Time" is
\* skipped, the entries untouched; a line that starts with "# Time" starts a
\* record when it holds "# Time: " followed by an ISO 8601 timestamp, and is fatal
\* when it does not.
C4_SeekSkipsOrStartsOrFails ==
    [][(pc = "seek" /\ ~AtEnd) =>
          IF ~starts_with(NextLine, TimeMarker)
          THEN pc' = "seek" /\ pos' = pos + 1 /\ entries' = entries
          ELSE IF time_regex(NextLine).ok /\ ParsesAsIso8601(time_regex(NextLine).cap1)
               THEN pc' = "user" /\ pos' = pos + 1 /\ entries' = entries
               ELSE pc' = "panic"]_vars

\* C4 witness: the run has stopped on a "# Time" line without a timestamp, read
\* while seeking a header after a complete block
C4_Witness ==
    /\ pc = "panic"
    /\ log = <<BlockOne, <<"TimeNoCapture">>>>
    /\ pos = Len(BlockOne)

\* a block cut after its time line, after its user/host line, after its metrics line
CutBlocks == {<<"TimeOK">>, <<"TimeOK", "UserFoo">>, <<"TimeOK", "UserFoo", "MetricA">>}

\* query lines that do not end with ";"
OpenQueryLines == {<<"Noise">>, <<"Empty">>, <<"QSel">>}

\* the log is well formed up to a last record that the end of the input cuts: after
\* one of its header lines, or in its query
EndsInsideRecord(segs) ==
    \E k \in 1..Len(segs) :
       /\ WellFormed(SubSeq(segs, 1, k - 1))
       /\ segs[k] \in CutBlocks
       /\ \A j \in (k + 1)..Len(segs) :
             segs[k] = <<"TimeOK", "UserFoo", "MetricA">> /\ segs[j] \in OpenQueryLines

\* C5 as claimed: when the input ends inside a record (after its time line, its
\* user/host line, its metrics line, or in its query before a line ending in ";"),
\* parse_log returns the entries of the complete blocks before it and nothing for
\* the cut record.
C5_PartialRecordDiscarded ==
    (Returned /\ EndsInsideRecord(log)) =>
        all_entries = [i \in 1..Len(BlocksOf(log)) |-> ExpectedEntry(BlocksOf(log)[i])]

\* C6 as claimed: every entry parse_log returns has a non-empty query and
\* non-negative times.
C6_EntriesWellFormed ==
    Returned =>
        \A i \in 1..Len(all_entries) :
           /\ all_entries[i].query # <<>>
           /\ all_entries[i].query_time >= 0
           /\ all_entries[i].lock_time >= 0

\* no line of the log starts a time marker
NoTimeMarker(segs) == \A i \in 1..Len(Flatten(segs)) : ~starts_with(Text[Flatten(segs)[i]], TimeMarker)

\* C7: on a log without any line starting a time marker, the empty log
\* included, parse_log does not fail and returns no entry, and aggregate_entries
\* returns the empty map.
C7_NoHeaderNoEntries ==
    NoTimeMarker(log) =>
        /\ pc # "panic"
        /\ Returned => all_entries = <<>>
        /\ (pc = "exit" /\ opt.aggregate) => DOMAIN aggregated = {}

\* C7 witness: a log of noise lines, aggregated
C7_Witness ==
    /\ pc = "exit"
    /\ opt.aggregate
    /\ log = <<<<"Noise">>, <<"Empty">>>>
    /\ all_entries = <<>>

\* C8 as claimed: summarize_aggregates on the empty map returns a Summary with
\* total_queries = 0 and unique_queries = 0, without dividing by zero.
C8_SummaryOfNothingDefined ==
    (pc \in {"summarized", "panic"} /\ DOMAIN aggregated = {}) =>
        /\ pc = "summarized"
        /\ summary.computed
        /\ summary.total_queries = 0
        /\ summary.unique_queries = 0

\* a render function has collected what it retains
Rendered == pc \in {"aggregate", "exit", "summarized", "panic"}

\* the entries collected, in whichever Vec the mode keeps them
Collected ==
    IF opt.normalize THEN [i \in 1..Len(normalized) |-> normalized[i].entry] ELSE filtered

\* the list fs in the order p
Reordered(fs, p) == [i \in 1..Len(fs) |-> fs[p[i]]]

\* C9: in each of the three render functions the entries collected are, in their
\* order, the entries that every filter of the list matches (all of them when the
\* list is empty), and any reordering of the filters retains the same entries.
C9_RetainedIffAllMatch ==
    Rendered =>
        /\ Collected = SelectSeq(all_entries,
                                 LAMBDA e : filters = <<>>
                                            \/ \A i \in 1..Len(filters) : matches(filters[i], e))
        /\ \A p \in Permutations(1..Len(filters)) :
              filter_collect(all_entries, Reordered(filters, p)) = Collected

\* C9 witness: normalized mode, two filters of which each rejects one of two
\* entries that the other accepts
C9_Witness ==
    /\ Rendered
    /\ opt.normalize
    /\ filters = <<UserEquals(Foo), QueryTimeLessThan(1)>>
    /\ all_entries = <<ExpectedEntry(BlockOne), ExpectedEntry(BlockWrapped)>>
    /\ Collected = <<ExpectedEntry(BlockWrapped)>>

\* the whole milliseconds of a time of usec microseconds, usec >= 0: the ms with
\* ms * 1000 <= usec < (ms + 1) * 1000
TruncatedMillis(usec) == usec \div 1000

\* C10: QueryTimeGreaterThan(t) matches exactly the entries whose query_time in
\* whole milliseconds, the fraction dropped, is >= t, and QueryTimeLessThan(t)
\* exactly those for which it is <= t: a render function given one of them alone
\* collects those entries, and an entry at t milliseconds passes both.
C10_QueryTimeInclusive ==
    /\ \A i \in 1..Len(filters), j \in 1..Len(all_entries) :
          /\ filters[i].kind = "QueryTimeGreaterThan" =>
                (matches(filters[i], all_entries[j])
                   <=> TruncatedMillis(all_entries[j].query_time) >= filters[i].msec)
          /\ filters[i].kind = "QueryTimeLessThan" =>
                (matches(filters[i], all_entries[j])
                   <=> TruncatedMillis(all_entries[j].query_time) <= filters[i].msec)
    /\ (Rendered /\ Len(filters) = 1 /\ filters[1].kind = "QueryTimeGreaterThan") =>
          Collected = SelectSeq(all_entries,
                                LAMBDA e : TruncatedMillis(e.query_time) >= filters[1].msec)
    /\ (Rendered /\ Len(filters) = 1 /\ filters[1].kind = "QueryTimeLessThan") =>
          Collected = SelectSeq(all_entries,
                                LAMBDA e : TruncatedMillis(e.query_time) <= filters[1].msec)

\* C10 witness: an entry of 1500 microseconds passes both >= 1 ms and <= 1 ms, next
\* to an entry of 500 ms that <= 1 ms rejects
C10_Witness ==
    /\ Rendered
    /\ filters = <<QueryTimeGreaterThan(1), QueryTimeLessThan(1)>>
    /\ all_entries = <<ExpectedEntry(BlockOne), ExpectedEntry(BlockMulti)>>
    /\ Collected = <<ExpectedEntry(BlockMulti)>>
    /\ ExpectedEntry(BlockMulti).query_time = 1500

\* the messages of create_filter for an unknown name, for an operator its name
\* does not support, and for a pattern that does not compile
InvalidName == {"Unknown filter name"}

InvalidOperator ==
    {"User filter expects one of '=', '!=' or '~='", "Query filter only supports '~='",
     "Query time filter expects one of '<', '<=', '>' or '>='"}

InvalidPattern == {"Invalid regular expression"}

\* the operators a filter name supports
SupportedOps(name) ==
    CASE name = NameUser -> {OpEq, OpNe, OpMatch}
      [] name = NameQuery -> {OpMatch}
      [] name = NameQueryTime -> {OpLt, OpLe, OpGt, OpGe}
      [] OTHER -> {}

\* the error kinds the definition arg must end in: none when its name, operator
\* and pattern are valid
ErrorDue(arg) ==
    LET caps == filter_regex(arg)
    IN  IF ~caps.ok THEN {}
        ELSE IF caps.name \notin {NameUser, NameQuery, NameQueryTime} THEN InvalidName
        ELSE IF caps.op \notin SupportedOps(caps.name) THEN InvalidOperator
        ELSE IF caps.name \in {NameUser, NameQuery} /\ caps.op = OpMatch
                /\ ~Regex_new_ok(caps.value) THEN InvalidPattern
        ELSE {}

\* C11 as claimed: the filter of "query_time>500" retains exactly the entries
\* whose query_time is at least 500 ms, one of exactly 500 ms included.
C11_ThresholdInMilliseconds ==
    (pc \in {"aggregate", "exit"} /\ filter_defs = <<DefQueryTimeGt500>>) =>
        filtered = SelectSeq(all_entries, LAMBDA e : e.query_time >= 500 * 1000)

\* C12 as claimed: a definition with an unknown name, an operator its name does
\* not support or a pattern that does not compile is never compiled into a
\* filter; the run ends at it with the error of its kind and no other failure,
\* before parse_log has read a line; for query_time with an unsupported operator
\* that is the operator error, whatever the value.
C12_ConstructionErrorStopsRun ==
    /\ \A i \in 1..Len(filters) : ErrorDue(filter_defs[i]) = {}
    /\ pc \notin {"opts", "panic"} => Len(filters) = Len(filter_defs)
    /\ (pc = "panic" /\ Len(filters) < Len(filter_defs)
        /\ ErrorDue(filter_defs[Len(filters) + 1]) # {}) =>
          /\ failure \in ErrorDue(filter_defs[Len(filters) + 1])
          /\ pos = 0 /\ entries = <<>> /\ all_entries = <<>> /\ ~printed

\* an expression with its literals and the length of its non-empty IN lists
\* left out
RECURSIVE EraseExpr(_)
EraseExpr(expr) ==
    CASE expr.type = "Value" -> [type |-> "Literal"]
      [] expr.type = "InList" ->
           InList(EraseExpr(expr.expr),
                  IF expr.list = <<>> THEN <<>> ELSE <<[type |-> "Elements"]>>,
                  expr.negated)
      [] expr.type = "BinaryOp" ->
           BinaryOp(EraseExpr(expr.left), expr.op, EraseExpr(expr.right))
      [] OTHER -> expr

EraseQuery(query_) ==
    [body |->
       CASE query_.body.type = "Select" ->
              LET select == query_.body.select
              IN  [type |-> "Select",
                   projection |-> [i \in 1..Len(select.projection) |->
                                     IF select.projection[i].type = "UnnamedExpr"
                                     THEN UnnamedExpr(EraseExpr(select.projection[i].expr))
                                     ELSE select.projection[i]],
                   from |-> select.from,
                   selection |-> IF select.selection.some
                                 THEN Some(EraseExpr(select.selection.value)) ELSE None]
         [] query_.body.type = "Values" ->
              [type |-> "Values",
               rows |-> [r \in 1..Len(query_.body.rows) |->
                           [i \in 1..Len(query_.body.rows[r]) |->
                              EraseExpr(query_.body.rows[r][i])]]],
     limit_clause |-> IF query_.limit_clause.some
                      THEN Some(EraseExpr(query_.limit_clause.value)) ELSE None]

\* a statement with its literals and the length of its non-empty IN lists left out
EraseStmt(stmt) ==
    CASE stmt.type = "Query" -> [type |-> "Query", query |-> EraseQuery(stmt.query)]
      [] stmt.type = "Insert" ->
           [type |-> "Insert", ignore |-> stmt.ignore, table |-> stmt.table,
            source |-> EraseQuery(stmt.source)]

\* two parsed queries differ in nothing but literal values and IN-list lengths
SameUpToLiterals(ast1, ast2) ==
    /\ Len(ast1) = Len(ast2)
    /\ \A k \in 1..Len(ast1) : EraseStmt(ast1[k]) = EraseStmt(ast2[k])

\* render_normalized has normalized every entry of all_entries
Normalized == pc \in {"aggregate", "exit"} /\ opt.normalize /\ filters = <<>>

\* what the parser makes of the query of entry i
Parsed(i) == parse_sql(all_entries[i].query)

\* C13 as claimed: two parseable queries that differ only in literal values,
\* wherever the literal stands, and in the length of IN lists get the same
\* fingerprint.
C13_LiteralsDoNotMatter ==
    Normalized =>
        \A i, j \in 1..Len(all_entries) :
           (Parsed(i).ok /\ Parsed(j).ok /\ SameUpToLiterals(Parsed(i).ast, Parsed(j).ast))
              => normalized[i].normalized_query = normalized[j].normalized_query

\* C14 as claimed: two parseable queries that differ in anything else (keyword or
\* modifier, clause, table, column, operator) get different fingerprints.
C14_StructureMatters ==
    Normalized =>
        \A i, j \in 1..Len(all_entries) :
           (Parsed(i).ok /\ Parsed(j).ok /\ ~SameUpToLiterals(Parsed(i).ast, Parsed(j).ast))
              => normalized[i].normalized_query # normalized[j].normalized_query

\* "SELECT * FROM t WHERE id IN (1, 2, 3);"
QueryInThree ==
    <<"S", "E", "L", "E", "C", "T", " ", "*", " ", "F", "R", "O", "M", " ", "t", " ", "W", "H",
      "E", "R", "E", " ", "i", "d", " ", "I", "N", " ", "(", "1", ",", " ", "2", ",", " ", "3",
      ")", ";">>

\* "SELECT * FROM t WHERE id IN (1);"
QueryInOne ==
    <<"S", "E", "L", "E", "C", "T", " ", "*", " ", "F", "R", "O", "M", " ", "t", " ", "W", "H",
      "E", "R", "E", " ", "i", "d", " ", "I", "N", " ", "(", "1", ")", ";">>

\* "SELECT * FROM t WHERE id IN ();"
QueryInNone ==
    <<"S", "E", "L", "E", "C", "T", " ", "*", " ", "F", "R", "O", "M", " ", "t", " ", "W", "H",
      "E", "R", "E", " ", "i", "d", " ", "I", "N", " ", "(", ")", ";">>

\* " SELECT * FROM t WHERE id IN (?);"
FingerprintInOne ==
    <<" ", "S", "E", "L", "E", "C", "T", " ", "*", " ", "F", "R", "O", "M", " ", "t", " ", "W",
      "H", "E", "R", "E", " ", "i", "d", " ", "I", "N", " ", "(", "?", ")", ";">>

\* " SELECT * FROM t WHERE id IN ();"
FingerprintInNone ==
    <<" ", "S", "E", "L", "E", "C", "T", " ", "*", " ", "F", "R", "O", "M", " ", "t", " ", "W",
      "H", "E", "R", "E", " ", "i", "d", " ", "I", "N", " ", "(", ")", ";">>

\* C15: a non-empty IN list is normalized to the list of its normalized first
\* element and an empty one stays empty: "IN (1, 2, 3)" and "IN (1)" both get the
\* fingerprint with "IN (?)", and "IN ()" gets another one (the one with "IN ()"
\* when the parser accepts the empty list).
C15_InListCollapsed ==
    Normalized =>
        \A i \in 1..Len(all_entries) :
           /\ all_entries[i].query \in {QueryInThree, QueryInOne} =>
                 normalized[i].normalized_query = FingerprintInOne
           /\ all_entries[i].query = QueryInNone =>
                 /\ normalized[i].normalized_query # FingerprintInOne
                 /\ supports_in_empty_list =>
                       normalized[i].normalized_query = FingerprintInNone

\* C15 witness: "IN (1, 2, 3)" and "IN (1)" have been aggregated under one key
C15_Witness ==
    /\ pc = "exit"
    /\ Len(all_entries) = 2
    /\ all_entries[1].query = QueryInThree
    /\ all_entries[2].query = QueryInOne
    /\ DOMAIN aggregated = {FingerprintInOne}
    /\ aggregated[FingerprintInOne].count = 2

\* C16: for every query the parser accepts, normalize applied to an entry whose
\* query is the fingerprint returns that fingerprint.
C16_Idempotent ==
    Normalized =>
        \A i \in 1..Len(all_entries) :
           Parsed(i).ok =>
              normalize([all_entries[i] EXCEPT !.query = normalized[i].normalized_query])
                 .normalized_query = normalized[i].normalized_query

\* C16 witness: the fingerprint of "IN (1, 2, 3)" is a text the parser accepts
C16_Witness ==
    /\ Normalized
    /\ Len(all_entries) = 1
    /\ all_entries[1].query = QueryInThree
    /\ normalized[1].normalized_query = FingerprintInOne
    /\ parse_sql(FingerprintInOne).ok

\* C17: a query the parser rejects does not end the run; its fingerprint is
\* "Unparseable statement: <query> (<error>)", under which it is aggregated; two
\* rejected queries of different text get different fingerprints, and a rejected
\* query never gets the fingerprint of an accepted one.
C17_UnparseableKeptApart ==
    /\ pc # "panic"
    /\ Normalized =>
          \A i \in 1..Len(all_entries) :
             ~Parsed(i).ok =>
                /\ normalized[i].normalized_query =
                      UnparseablePrefix \o all_entries[i].query \o <<" ", "(">>
                      \o Parsed(i).err \o <<")">>
                /\ pc = "exit" =>
                      /\ normalized[i].normalized_query \in DOMAIN aggregated
                      /\ FoldCount(aggregated, DOMAIN aggregated) = Len(all_entries)
                /\ \A j \in 1..Len(all_entries) :
                      (Parsed(j).ok \/ all_entries[j].query # all_entries[i].query) =>
                         normalized[j].normalized_query # normalized[i].normalized_query

\* C17 witness: two rejected queries have been aggregated under two keys
C17_Witness ==
    /\ pc = "exit"
    /\ Len(all_entries) = 2
    /\ all_entries[1].query = TextBadSelect
    /\ all_entries[2].query = TextBadFrom
    /\ Cardinality(DOMAIN aggregated) = 2

\* C18: each turn of the aggregator, given (key, query_time), inserts
\* {count = 1, total = avg = max = query_time} when the key is absent and otherwise
\* sets total := total + query_time, max := max(max, query_time),
\* avg := (avg * count + query_time) / (count + 1) truncated, count := count + 1,
\* leaving the other keys alone; (f, 100), (f, 300) ends in count 2, total 400,
\* max 300, avg 200.
C18_AggregateRecurrence ==
    /\ [][(pc = "aggregate" /\ pending # <<>>) =>
            LET key == Head(pending).key
                t   == Head(pending).query_time
            IN  /\ DOMAIN result' = DOMAIN result \cup {key}
                /\ \A k \in DOMAIN result \ {key} : result'[k] = result[k]
                /\ result'[key].query = key
                /\ IF key \notin DOMAIN result
                   THEN /\ result'[key].count = 1
                        /\ result'[key].total_query_time = t
                        /\ result'[key].avg_query_time = t
                        /\ result'[key].max_query_time = t
                   ELSE LET old == result[key]
                            sum == old.avg_query_time * old.count + t
                        IN  /\ result'[key].count = old.count + 1
                            /\ result'[key].total_query_time = old.total_query_time + t
                            /\ result'[key].max_query_time \in {old.max_query_time, t}
                            /\ result'[key].max_query_time >= old.max_query_time
                            /\ result'[key].max_query_time >= t
                            /\ result'[key].avg_query_time * (old.count + 1) <= sum
                            /\ sum < (result'[key].avg_query_time + 1) * (old.count + 1)]_vars
    /\ []((pc = "exit" /\ filters = <<>> /\ Len(all_entries) = 2
           /\ all_entries[1].query = all_entries[2].query
           /\ all_entries[1].query_time = 100 /\ all_entries[2].query_time = 300) =>
             \A k \in DOMAIN aggregated :
                /\ aggregated[k].count = 2
                /\ aggregated[k].total_query_time = 400
                /\ aggregated[k].max_query_time = 300
                /\ aggregated[k].avg_query_time = 200)

\* C18 witness: three entries of 100, 301 and 301 microseconds under one key; the
\* average went 100, 200, 233 while the total is 702
C18_Witness ==
    /\ pc = "exit"
    /\ opt.normalize
    /\ Len(all_entries) = 3
    /\ Cardinality(DOMAIN aggregated) = 1
    /\ \A k \in DOMAIN aggregated :
          /\ aggregated[k].count = 3
          /\ aggregated[k].total_query_time = 702
          /\ aggregated[k].avg_query_time = 233

\* C19: every entry of the map has count >= 1; from one step to the next no
\* entry leaves the map and no entry's count or max_query_time decreases.
C19_MapOnlyGrows ==
    /\ [](\A k \in DOMAIN result : result[k].count >= 1)
    /\ [](\A k \in DOMAIN aggregated : aggregated[k].count >= 1)
    /\ [][\A k \in DOMAIN result :
             /\ k \in DOMAIN result'
             /\ result'[k].count >= result[k].count
             /\ result'[k].max_query_time >= result[k].max_query_time]_vars

\* C19 witness: a key has taken 300 and then 100 microseconds: its count is 2 and
\* its max still 300
C19_Witness ==
    /\ pc = "aggregate"
    /\ ~opt.normalize
    /\ Len(all_entries) = 2
    /\ all_entries[1].query_time = 300
    /\ all_entries[2].query_time = 100
    /\ pending = <<>>
    /\ \E k \in DOMAIN result : result[k].count = 2 /\ result[k].max_query_time = 300

\* the (key, query_time) of the retained entries in the order of the input, as a
\* run on one thread hands them to the aggregator
RECURSIVE SequentialKeys(_)
SequentialKeys(es) ==
    IF es = <<>> THEN <<>>
    ELSE LET e    == es[Len(es)]
             rest == SequentialKeys(SubSeq(es, 1, Len(es) - 1))
         IN  IF filters = <<>> \/ \A i \in 1..Len(filters) : matches(filters[i], e)
             THEN Append(rest, [key |-> IF opt.normalize THEN normalize(e).normalized_query
                                        ELSE e.query,
                                query_time |-> e.query_time])
             ELSE rest

\* the map a run on one thread builds from the keys ks
RECURSIVE SequentialMap(_)
SequentialMap(ks) ==
    IF ks = <<>> THEN EmptyMap
    ELSE LET before == SequentialMap(SubSeq(ks, 1, Len(ks) - 1))
             last   == ks[Len(ks)]
         IN  IF last.key \in DOMAIN before
             THEN [before EXCEPT ![last.key] = update_with(before[last.key], last.query_time)]
             ELSE [k \in DOMAIN before \cup {last.key} |->
                     IF k = last.key
                     THEN AggregateLogEntry_new(last.key, last.query_time)
                     ELSE before[k]]

\* C20: whatever the order in which the workers take the entries, the aggregator
\* is handed the retained entries in the order of the input, nothing but the
\* aggregator's turns writes the map, and the map it returns, avg included, is
\* the one a run on one thread builds.
C20_ScheduleDoesNotMatter ==
    /\ [](pc = "par" => result = EmptyMap)
    /\ []((pc = "aggregate" /\ result = EmptyMap
           /\ Len(pending) = Cardinality({i \in 1..Len(work) : work[i].out.some})) =>
             pending = SequentialKeys(all_entries))
    /\ [](pc = "exit" => aggregated = SequentialMap(SequentialKeys(all_entries)))
    /\ [][result' # result => (pc = "aggregate" /\ pc' = "aggregate" /\ pending # <<>>
                               /\ pending' = Tail(pending) /\ work' = work)]_vars

\* C20 witness: of three entries under one key, of 100, 301 and 301
\* microseconds, a worker has finished the third while the first is not taken
C20_Witness ==
    /\ pc = "par"
    /\ opt.normalize
    /\ Len(work) = 3
    /\ all_entries[1].query_time = 100
    /\ all_entries[2].query_time = 301
    /\ all_entries[3].query_time = 301
    /\ work[3].done
    /\ work[3].out.some
    /\ ~work[1].done

\* text t holds a tab, or two spaces side by side
HasTabOrTwoSpaces(t) ==
    \/ \E i \in 1..Len(t) : t[i] = "\t"
    \/ \E i \in 1..(Len(t) - 1) : t[i] = " " /\ t[i + 1] = " "

\* C21: the query of every LogEntry parse_log returns holds no tab and no two
\* adjacent spaces.
C21_QueryWhitespaceCollapsed ==
    /\ \A i \in 1..Len(entries) : ~HasTabOrTwoSpaces(entries[i].query)
    /\ \A i \in 1..Len(all_entries) : ~HasTabOrTwoSpaces(all_entries[i].query)

\* C22: two queries that differ only in the kind of one literal (NULL or a
\* string where the other has a number, and so on) get different fingerprints,
\* and the fingerprint of a query with a NULL literal still reads NULL.
C22_PlaceholderByKind ==
    Normalized =>
        \A i, j \in 1..Len(all_entries) :
           \A v, w \in Literals :
              (/\ Parsed(i).ok /\ Parsed(i).ast = <<SelectWhereValue(v)>>
               /\ Parsed(j).ok /\ Parsed(j).ast = <<SelectWhereValue(w)>>) =>
                 /\ v.type # w.type =>
                       normalized[i].normalized_query # normalized[j].normalized_query
                 /\ v = Null =>
                       ends_with(normalized[i].normalized_query, "L;")

\* the texts of the rewritten statements of ast, each followed by ";", one space
\* between one and the next
RECURSIVE JoinedBySpace(_)
JoinedBySpace(ast) ==
    IF ast = <<>> THEN <<>>
    ELSE (IF Len(ast) = 1 THEN <<>>
          ELSE JoinedBySpace(SubSeq(ast, 1, Len(ast) - 1)) \o <<" ">>)
         \o ShowStatement(normalize_stmt(ast[Len(ast)])) \o <<";">>

\* C23: the fingerprint of a parsed query is the text of each rewritten statement
\* followed by ";", one space between consecutive statements, nothing before the
\* first and nothing after the last ";".
C23_StatementsJoinedBySpace ==
    Normalized =>
        \A i \in 1..Len(all_entries) :
           Parsed(i).ok => normalized[i].normalized_query = JoinedBySpace(Parsed(i).ast)

\* text t holds a digit or a quote: a literal as written in the queries
HoldsLiteral(t) == \E i \in 1..Len(t) : t[i] \in Digit \cup {"'"}

\* C24: no literal of a parsed query is left in its fingerprint, whether it stands
\* in a common table expression, a derived table, a nested join, a join
\* constraint, either side of a set operation, the VALUES of an INSERT, the
\* assignments or WHERE of an UPDATE or the WHERE of a DELETE.
C24_RewriteReachesEveryLiteral ==
    Normalized =>
        \A i \in 1..Len(all_entries) :
           Parsed(i).ok => ~HoldsLiteral(normalized[i].normalized_query)

\* the updates ks applied in the order p, a permutation of their indices
Reordered_by(ks, p) == [i \in 1..Len(ks) |-> ks[p[i]]]

\* updates of one key whose average depends on the order they come in
AvgDependsOnOrder ==
    \E ks \in [1..MaxItems -> [key : {<<"f">>}, query_time : {100, 300, 301}]] :
       \E p \in Permutations(1..MaxItems) :
          SequentialMap(ks)[<<"f">>].avg_query_time
             # SequentialMap(Reordered_by(ks, p))[<<"f">>].avg_query_time

\* C25: whatever the order the updates of a run are applied in, count,
\* total_query_time and max_query_time of every key are those the run ended with;
\* avg_query_time is not: some updates end with different averages in two orders.
C25_OrderMovesOnlyAvg ==
    /\ pc = "exit" =>
          LET ks == SequentialKeys(all_entries)
          IN  \A p \in Permutations(1..Len(ks)) :
                 LET other == SequentialMap(Reordered_by(ks, p))
                 IN  /\ DOMAIN other = DOMAIN aggregated
                     /\ \A k \in DOMAIN other :
                           /\ other[k].count = aggregated[k].count
                           /\ other[k].total_query_time = aggregated[k].total_query_time
                           /\ other[k].max_query_time = aggregated[k].max_query_time
    /\ AvgDependsOnOrder

\* C25 witness: a run of three updates that would have ended with another average
\* had they come in another order
C25_Witness ==
    /\ pc = "exit"
    /\ Len(SequentialKeys(all_entries)) = 3
    /\ \E p \in Permutations(1..3) :
          \E k \in DOMAIN aggregated :
             SequentialMap(Reordered_by(SequentialKeys(all_entries), p))[k].avg_query_time
                # aggregated[k].avg_query_time

\* the sum of the query times of the updates ks of key k
RECURSIVE SumOfTimes(_, _)
SumOfTimes(ks, k) ==
    IF ks = <<>> THEN 0
    ELSE (IF Head(ks).key = k THEN Head(ks).query_time ELSE 0) + SumOfTimes(Tail(ks), k)

\* the updates the aggregator has taken so far
Fed ==
    LET ks == SequentialKeys(all_entries)
    IN  SubSeq(ks, 1, Len(ks) - Len(pending))

\* C26: after any sequence of non-negative query times, every entry has
\* avg_query_time <= total_query_time / count (truncated) <= max_query_time,
\* total_query_time is the sum of the times fed under its key, the counts add up
\* to the number of updates fed, and an update leaves the entries of the other
\* keys as they were.
C26_AggregateBounds ==
    /\ [](pc = "aggregate" =>
            /\ \A k \in DOMAIN result :
                  /\ result[k].avg_query_time
                        <= result[k].total_query_time \div result[k].count
                  /\ result[k].total_query_time \div result[k].count
                        <= result[k].max_query_time
                  /\ result[k].total_query_time = SumOfTimes(Fed, k)
            /\ FoldCount(result, DOMAIN result) = Len(Fed))
    /\ [][(pc = "aggregate" /\ pending # <<>>) =>
            \A k \in DOMAIN result \ {Head(pending).key} :
               k \in DOMAIN result' /\ result'[k] = result[k]]_vars

\* C26 witness: 100, 301 and 301 microseconds under one key, all fed: the average
\* 233 lies under total / count = 234; another run has fed two keys
C26_Witness ==
    /\ pc = "aggregate"
    /\ pending = <<>>
    /\ Len(Fed) = 3
    /\ \E k \in DOMAIN result :
          /\ result[k].count = 3
          /\ result[k].avg_query_time < result[k].total_query_time \div 3

====
